---- MODULE Spec2Model ----
(***************************************************************************)
(* A model of app.py: the agreement form server.  The state is the set of  *)
(* per-browser sessions (Flask session dictionaries), the four storage     *)
(* directories with the files in them, and a record of the last request.   *)
(* One action per route handler; every handler runs to completion, except  *)
(* in the specifications that take a submission or a logout in steps or    *)
(* let two submissions of a session overlap.                               *)
(*                                                                         *)
(* Strings are sequences of characters.  A chunk that no pattern of the    *)
(* code can split ("MSA_", the hex of a uuid, "_history.json") is kept as  *)
(* one element.                                                            *)
(***************************************************************************)
EXTENDS Integers, Sequences, FiniteSets, TLC

(***************************************************************************)
(* Bounds of the model.                                                    *)
(***************************************************************************)
\* uuid4 values drawn for one session over a whole run (every one is fresh)
MaxUuid == 3

(***************************************************************************)
(* String helpers, as the Python built-ins compute them.                   *)
(***************************************************************************)
EMPTY == << >>
SPACE == " "

\* str.strip(): leading and trailing whitespace removed
RECURSIVE LStrip(_)
LStrip(s) == IF s # EMPTY /\ Head(s) = SPACE THEN LStrip(Tail(s)) ELSE s

RECURSIVE RStrip(_)
RStrip(s) ==
    IF s # EMPTY /\ s[Len(s)] = SPACE THEN RStrip(SubSeq(s, 1, Len(s) - 1)) ELSE s

Strip(s) == RStrip(LStrip(s))

\* str.replace(old, new): every non-overlapping occurrence, left to right
RECURSIVE Replace(_, _, _)
Replace(s, old, new) ==
    IF Len(s) < Len(old) THEN s
    ELSE IF SubSeq(s, 1, Len(old)) = old
         THEN new \o Replace(SubSeq(s, Len(old) + 1, Len(s)), old, new)
         ELSE <<Head(s)>> \o Replace(Tail(s), old, new)

\* html.escape(s, quote=True), character by character
EscapeChar(c) ==
    CASE c = "&" -> <<"&", "a", "m", "p", ";">>
      [] c = "<" -> <<"&", "l", "t", ";">>
      [] c = ">" -> <<"&", "g", "t", ";">>
      [] c = "\"" -> <<"&", "q", "u", "o", "t", ";">>
      [] c = "'" -> <<"&", "#", "x", "2", "7", ";">>
      [] OTHER -> <<c>>

RECURSIVE escape(_)
escape(s) == IF s = EMPTY THEN EMPTY ELSE EscapeChar(Head(s)) \o escape(Tail(s))

\* str.lower() on the letters the model uses
LowerChar(c) ==
    CASE c = "P" -> "p" [] c = "N" -> "n" [] c = "G" -> "g"
      [] c = "J" -> "j" [] c = "E" -> "e" [] OTHER -> c

Lower(s) == [i \in 1..Len(s) |-> LowerChar(s[i])]

\* index of the last occurrence of c in s, 0 when absent
LastIndexOf(s, c) ==
    LET hits == {i \in 1..Len(s) : s[i] = c}
    IN IF hits = {} THEN 0 ELSE CHOOSE i \in hits : \A j \in hits : j <= i

\* index of the first occurrence of c in s, 0 when absent
FirstIndexOf(s, c) ==
    LET hits == {i \in 1..Len(s) : s[i] = c}
    IN IF hits = {} THEN 0 ELSE CHOOSE i \in hits : \A j \in hits : i <= j

ALLOWED_EXTENSIONS == {<<"p", "n", "g">>, <<"j", "p", "g">>, <<"j", "p", "e", "g">>}

\* A variant of allowed_file that compares the suffix as it is written.
allowed_file_as_written(filename) ==
    /\ LastIndexOf(filename, ".") > 0
    /\ SubSeq(filename, LastIndexOf(filename, ".") + 1, Len(filename))
           \in ALLOWED_EXTENSIONS

\* '.' in filename and filename.rsplit('.', 1)[1].lower() in ALLOWED_EXTENSIONS
allowed_file(filename) ==
    /\ LastIndexOf(filename, ".") > 0
    /\ Lower(SubSeq(filename, LastIndexOf(filename, ".") + 1, Len(filename)))
           \in ALLOWED_EXTENSIONS

(***************************************************************************)
(* validate_date: datetime.strptime(date_str, '%Y-%m-%d') succeeds.        *)
(* strptime matches %Y as four digits, %m as 1[0-2]|0[1-9]|[1-9], %d as    *)
(* 3[01]|[12]\d|0[1-9]|[1-9]| [1-9], the whole string, and then builds the *)
(* date, which fails for a day the month does not have and for year 0.     *)
(***************************************************************************)
Digits == <<"0", "1", "2", "3", "4", "5", "6", "7", "8", "9">>

IsDigit(c) == \E i \in 1..10 : Digits[i] = c

DigitVal(c) == (CHOOSE i \in 1..10 : Digits[i] = c) - 1

RECURSIVE NumVal(_)
NumVal(s) ==
    IF s = EMPTY THEN 0
    ELSE 10 * NumVal(SubSeq(s, 1, Len(s) - 1)) + DigitVal(s[Len(s)])

AllDigits(s) == \A i \in 1..Len(s) : IsDigit(s[i])

MatchesYear(s) == Len(s) = 4 /\ AllDigits(s)

MatchesMonth(s) ==
    /\ Len(s) \in {1, 2}
    /\ AllDigits(s)
    /\ NumVal(s) \in 1..12

MatchesDay(s) ==
    \/ Len(s) \in {1, 2} /\ AllDigits(s) /\ NumVal(s) \in 1..31
    \/ Len(s) = 2 /\ s[1] = SPACE /\ IsDigit(s[2]) /\ s[2] # "0"

DayVal(s) == IF s[1] = SPACE THEN DigitVal(s[2]) ELSE NumVal(s)

IsLeap(y) == (y % 4 = 0 /\ y % 100 # 0) \/ y % 400 = 0

DaysIn(y, m) ==
    IF m = 2 THEN (IF IsLeap(y) THEN 29 ELSE 28)
    ELSE IF m \in {4, 6, 9, 11} THEN 30 ELSE 31

validate_date(date_str) ==
    LET d1 == FirstIndexOf(date_str, "-")
        rest == SubSeq(date_str, d1 + 1, Len(date_str))
        d2 == FirstIndexOf(rest, "-")
        ys == SubSeq(date_str, 1, d1 - 1)
        ms == SubSeq(rest, 1, d2 - 1)
        ds == SubSeq(rest, d2 + 1, Len(rest))
    IN /\ d1 > 0
       /\ d2 > 0
       /\ MatchesYear(ys)
       /\ MatchesMonth(ms)
       /\ MatchesDay(ds)
       /\ NumVal(ys) >= 1
       /\ DayVal(ds) <= DaysIn(NumVal(ys), NumVal(ms))

\* sanitize_input: "" for a falsy value, else escape(str(x).strip())
sanitize_input(input_str) ==
    IF input_str = EMPTY THEN EMPTY ELSE escape(Strip(input_str))

(***************************************************************************)
(* Python dictionaries are functions; a key is present iff in the DOMAIN.  *)
(***************************************************************************)
Put(d, k, v) == [x \in DOMAIN d \cup {k} |-> IF x = k THEN v ELSE d[x]]

Get(d, k, default) == IF k \in DOMAIN d THEN d[k] ELSE default

Remove(d, k) == [x \in DOMAIN d \ {k} |-> d[x]]

\* dict.setdefault(k, {}) on the session
SetDefault(d, k) == IF k \in DOMAIN d THEN d ELSE Put(d, k, EMPTY)

(***************************************************************************)
(* The file system: the four configured directories and the files in them. *)
(***************************************************************************)
DOCX_DIR == "temp_docx"
OUTPUT_DIR == "temp_pdf"
SIGNATURE_DIR == "temp_signatures"
EDIT_HISTORY_DIR == "edit_history"

StorageDirs == {DOCX_DIR, OUTPUT_DIR, SIGNATURE_DIR, EDIT_HISTORY_DIR}

\* os.path.join(directory, filename).replace('\\', '/')
Path(dir, name) == [dir |-> dir, name |-> name]

NoPath == [dir |-> "", name |-> EMPTY]

\* None, for a value that is otherwise a string
None == EMPTY

Sessions == {"s1", "s2"}

VARIABLES
    session,    \* session[s]: the Flask session dictionary of browser session s
    files,      \* files[p]: the content of the file at path p
    dirs,       \* the storage directories that exist
    nextUuid,   \* nextUuid[s]: the number of uuid4 values drawn for session s
    retired,    \* the artifact ids that were registered in a session at its logout
    inflight,   \* the submission that is being handled while others are served
    last        \* what the last request did

vars == <<session, files, dirs, nextUuid, retired, inflight, last>>

\* os.path.exists(filepath)
Exists(fs, p) == p \in DOMAIN fs

\* open(p, 'wb') / FileStorage.save(p): possible only in an existing directory
CanWrite(ds, p) == p.dir \in ds

\* os.unlink(p) on an existing file
Unlink(fs, p) == Remove(fs, p)

(***************************************************************************)
(* The world one request works on: its own session dictionary, the file    *)
(* system and the uuid source.                                             *)
(***************************************************************************)
World(s, sess, fs, ds, uuid) ==
    [sid |-> s, sess |-> sess, files |-> fs, dirs |-> ds, uuid |-> uuid]

\* uuid.uuid4().hex: a fresh value, here the n-th one drawn for session s
Hex(s, n) == <<s, ToString(n)>>

(***************************************************************************)
(* save_signature                                                          *)
(***************************************************************************)
DATA_IMAGE == "data:image"
COMMA == ","

\* base64 groups of four characters ("QUJD", "REVG") and the bytes they
\* decode to; "QUJ" is a truncated group (incorrect padding), "!" is outside
\* the alphabet
B64Bytes(g) == IF g = "QUJD" THEN "png-bytes" ELSE "junk-bytes"

\* base64.b64decode(payload): characters outside the alphabet are dropped,
\* a truncated group raises binascii.Error
B64Kept(payload) == SelectSeq(payload, LAMBDA c : c \notin {"!", COMMA})

B64Raises(payload) == \E i \in 1..Len(payload) : payload[i] = "QUJ"

b64decode(payload) == [i \in 1..Len(B64Kept(payload)) |-> B64Bytes(B64Kept(payload)[i])]

\* data.split(',')[1]: what lies between the first comma and the next one
RECURSIVE UpToComma(_)
UpToComma(s) ==
    IF s = EMPTY \/ Head(s) = COMMA THEN EMPTY ELSE <<Head(s)>> \o UpToComma(Tail(s))

SplitCommaSecond(data) ==
    UpToComma(SubSeq(data, FirstIndexOf(data, COMMA) + 1, Len(data)))

StartsWithDataImage(data) == data # EMPTY /\ Head(data) = DATA_IMAGE

HasComma(data) == FirstIndexOf(data, COMMA) > 0

\* f"{prefix}_{uuid.uuid4().hex}.png"
SignatureFilename(prefix, hex) == <<prefix, "_">> \o hex \o <<".png">>

\* lines 78-88: the canvas payload is rejected
CanvasRejected(data) ==
    \/ data = EMPTY
    \/ ~StartsWithDataImage(data)
    \/ ~HasComma(data)
    \/ B64Raises(SplitCommaSecond(data))

\* A variant of RegisterSignature that starts the map anew.
RegisterSignatureAlone(sess, filename, filepath) ==
    Put(sess, "signatures", Put(EMPTY, filename, filepath))

\* lines 97-99: the filename is registered in the session
RegisterSignature(sess, filename, filepath) ==
    Put(SetDefault(sess, "signatures"), "signatures",
        Put(SetDefault(sess, "signatures")["signatures"], filename, filepath))

\* A uuid that leaves no trace (the call fails) is not counted as drawn.
\* modified: how often session.modified = True (line 99) was executed.
save_signature(w, data, prefix, is_file) ==
    LET filename == SignatureFilename(prefix, Hex(w.sid, w.uuid + 1))
        filepath == Path(SIGNATURE_DIR, filename)
        rejected == IF is_file THEN ~allowed_file(data.filename)
                    ELSE CanvasRejected(data)
        bytes == IF is_file THEN data.content ELSE b64decode(SplitCommaSecond(data))
        fail == [w |-> w, ret |-> None, modified |-> 0]
    IN IF rejected THEN fail
       ELSE IF ~CanWrite(w.dirs, filepath) THEN fail
       ELSE [w |-> [w EXCEPT !.files = Put(w.files, filepath,
                                           [kind |-> "signature", bytes |-> bytes]),
                             !.sess = RegisterSignature(w.sess, filename, filepath),
                             !.uuid = w.uuid + 1],
             ret |-> filename, modified |-> 1]

(***************************************************************************)
(* create_document                                                         *)
(***************************************************************************)
SigKeys == <<"customer_signature", "chervic_signature">>

\* A variant of SignatureFileMissing that looks at the first key only.
SignatureFileMissingFirst(fs, content) ==
    SigKeys[1] \in DOMAIN content /\ ~Exists(fs, content[SigKeys[1]])

\* lines 138-142: a signature key is present and its file is not on disk
SignatureFileMissing(fs, content) ==
    \E i \in 1..Len(SigKeys) :
        SigKeys[i] \in DOMAIN content /\ ~Exists(fs, content[SigKeys[i]])

\* run.add_picture(path): python-docx raises on bytes that are no image
PictureFails(fs, content) ==
    \E i \in 1..Len(SigKeys) :
        /\ SigKeys[i] \in DOMAIN content
        /\ Exists(fs, content[SigKeys[i]])
        /\ fs[content[SigKeys[i]]].bytes # <<"png-bytes">>

DefaultCompanyName == <<"Company Name">>

\* the document: its substituted fields and the cells of the signature table
DocumentOf(content) ==
    [kind |-> "docx",
     company_name |-> Get(content, "name", DefaultCompanyName),
     customer_cell |-> "customer_signature" \in DOMAIN content,
     chervic_cell |-> "chervic_signature" \in DOMAIN content]

NoBuffer == [kind |-> "none"]

create_document(fs, content) ==
    IF SignatureFileMissing(fs, content)
    THEN [raised |-> TRUE, error |-> "FileNotFoundError", buffer |-> NoBuffer]
    ELSE IF PictureFails(fs, content)
    THEN [raised |-> TRUE, error |-> "UnrecognizedImageError", buffer |-> NoBuffer]
    ELSE [raised |-> FALSE, error |-> "", buffer |-> DocumentOf(content)]

(***************************************************************************)
(* generate_pdf                                                            *)
(***************************************************************************)
DOCX_EXT == <<".", "d", "o", "c", "x">>
PDF_EXT == <<".", "p", "d", "f">>

\* f"MSA_{content['name'].replace(' ', '_')}_{uuid.uuid4().hex}.docx"
DocxFilename(name, hex) ==
    <<"MSA_">> \o Replace(name, <<SPACE>>, <<"_">>) \o <<"_">> \o hex \o DOCX_EXT

\* filename.replace('.docx', '.pdf')
PdfFilename(filename) == Replace(filename, DOCX_EXT, PDF_EXT)

\* soffice --convert-to pdf --outdir DIR FILE writes DIR/<FILE without its
\* last extension>.pdf
ConverterOutputName(filename) ==
    SubSeq(filename, 1, LastIndexOf(filename, ".") - 1) \o PDF_EXT

ConverterStatus == {"zero", "nonzero", "oserror"}

\* A variant of ConversionOk without check=True: the exit status is not looked at.
ConversionUnchecked(status, pdfExists) == pdfExists

\* lines 546-561: check=True passed and the expected file is there
ConversionOk(status, pdfExists) == status = "zero" /\ pdfExists

\* A variant of RegisterArtifact without line 572.
RegisterArtifactPdfOnly(sess, pdf_filename, pdf_filepath, docx_filepath) ==
    LET s1 == SetDefault(SetDefault(sess, "pdfs"), "docxs")
    IN Put(s1, "pdfs", Put(s1["pdfs"], pdf_filename, pdf_filepath))

\* lines 569-573
RegisterArtifact(sess, pdf_filename, pdf_filepath, docx_filepath) ==
    LET s1 == SetDefault(SetDefault(sess, "pdfs"), "docxs")
    IN Put(Put(s1, "pdfs", Put(s1["pdfs"], pdf_filename, pdf_filepath)),
           "docxs", Put(s1["docxs"], pdf_filename, docx_filepath))

\* A variant of CleanupPartial that deletes nothing.
CleanupNothing(fs, docx_filepath, pdf_filepath, stuck) == fs

\* lines 581-584: an unlink in a directory of `stuck` raises, which ends the
\* handler before the next unlink
CleanupPartial(fs, docx_filepath, pdf_filepath, stuck) ==
    IF Exists(fs, docx_filepath) /\ docx_filepath.dir \in stuck THEN fs
    ELSE LET fs1 == IF Exists(fs, docx_filepath) THEN Unlink(fs, docx_filepath) ELSE fs
         IN IF Exists(fs1, pdf_filepath) /\ pdf_filepath.dir \notin stuck
            THEN Unlink(fs1, pdf_filepath)
            ELSE fs1

CleanupRaises(fs, docx_filepath, pdf_filepath, stuck) ==
    \/ Exists(fs, docx_filepath) /\ docx_filepath.dir \in stuck
    \/ Exists(fs, pdf_filepath) /\ pdf_filepath.dir \in stuck

\* generate_pdf did not run
NoGp ==
    [called |-> FALSE, returned |-> FALSE, stage |-> "", id |-> None,
     docx |-> NoPath, pdf |-> NoPath, conv |-> "", pdfExisted |-> FALSE,
     readFault |-> FALSE, made |-> {}, unlinkFailed |-> FALSE]

\* lines 575-576: open(pdf_filepath, 'rb') and read
ReadBack(fs, pdf_filepath, readFault) == Exists(fs, pdf_filepath) /\ ~readFault

\* env: conv, the converter's exit (or "oserror": it could not be started);
\* produced, whether it wrote its output file; readFault, whether reading
\* the output back fails; stuck, the directories in which a removal fails.
generate_pdf(w, content, env) ==
    LET doc == create_document(w.files, content)
        uuid == w.uuid + 1
        filename == DocxFilename(content["name"], Hex(w.sid, uuid))
        docx_filepath == Path(DOCX_DIR, filename)
        pdf_filename == PdfFilename(filename)
        pdf_filepath == Path(OUTPUT_DIR, pdf_filename)
        written == CanWrite(w.dirs, docx_filepath)
        fs1 == IF written THEN Put(w.files, docx_filepath, doc.buffer) ELSE w.files
        convOut == Path(OUTPUT_DIR, ConverterOutputName(filename))
        produced == written /\ env.conv # "oserror" /\ env.produced /\ OUTPUT_DIR \in w.dirs
        fs2 == IF produced
               THEN Put(fs1, convOut, [kind |-> "pdf", source |-> doc.buffer])
               ELSE fs1
        converted == written /\ ConversionOk(env.conv, Exists(fs2, pdf_filepath))
        sess1 == IF converted
                 THEN RegisterArtifact(w.sess, pdf_filename, pdf_filepath, docx_filepath)
                 ELSE w.sess
        returned == converted /\ ReadBack(fs2, pdf_filepath, env.readFault)
        fs3 == IF returned THEN fs2
               ELSE CleanupPartial(fs2, docx_filepath, pdf_filepath, env.stuck)
        gp == [called |-> TRUE, returned |-> returned,
               stage |-> IF returned THEN "done"
                         ELSE IF ~written THEN "write"
                         ELSE IF env.conv # "zero" THEN "convert"
                         ELSE IF ~converted THEN "verify"
                         ELSE "read",
               id |-> pdf_filename, docx |-> docx_filepath, pdf |-> pdf_filepath,
               conv |-> IF written THEN env.conv ELSE "",
               pdfExisted |-> written /\ Exists(fs2, pdf_filepath),
               readFault |-> env.readFault,
               made |-> (IF written THEN {docx_filepath} ELSE {})
                            \cup (IF produced THEN {convOut} ELSE {}),
               unlinkFailed |-> ~returned
                    /\ CleanupRaises(fs2, docx_filepath, pdf_filepath, env.stuck)]
    IN IF doc.raised
       THEN [w |-> w, buffer |-> NoBuffer,
             gp |-> [NoGp EXCEPT !.called = TRUE, !.stage = "document"]]
       ELSE [w |-> [w EXCEPT !.files = fs3, !.sess = sess1, !.uuid = uuid],
             buffer |-> IF returned THEN fs2[pdf_filepath] ELSE NoBuffer,
             gp |-> gp]

(***************************************************************************)
(* save_edit_history                                                       *)
(***************************************************************************)
HistoryFaults == {"none", "read", "open", "dump"}

\* f"{pdf_filename}_history.json" in EDIT_HISTORY_DIR
HistoryFile(pdf_filename) == Path(EDIT_HISTORY_DIR, pdf_filename \o <<"_history.json">>)

\* A variant of HistoryErrorSurfaces for a save_edit_history without its
\* try/except.
HistoryErrorRaised(fault) == fault # "none"

\* lines 603-604: every exception of the read and the write is caught and
\* logged, none reaches the caller
HistoryErrorSurfaces(fault) == FALSE

\* The timestamp of an entry is not modelled.  fault: "read", json.load
\* raises; "open", the log cannot be opened for writing; "dump", it was
\* opened (and truncated) and json.dump raises.  Every exception is swallowed.
save_edit_history(w, pdf_filename, username, changes, fault) ==
    LET history_file == HistoryFile(pdf_filename)
        history_entry == [username |-> username, changes |-> changes]
        old == IF Exists(w.files, history_file) THEN w.files[history_file].entries
               ELSE EMPTY
        history == Append(old, history_entry)
    IN IF Exists(w.files, history_file) /\ fault = "read" THEN w
       ELSE IF ~CanWrite(w.dirs, history_file) \/ fault = "open" THEN w
       ELSE IF fault = "dump"
       THEN [w EXCEPT !.files = Put(w.files, history_file,
                                    [kind |-> "history", entries |-> EMPTY])]
       ELSE [w EXCEPT !.files = Put(w.files, history_file,
                                    [kind |-> "history", entries |-> history])]

(***************************************************************************)
(* generate_nda (POST /submit)                                             *)
(***************************************************************************)
required_fields ==
    <<"name", "websiteUrl", "registrationNumber", "headquartersLocation",
      "countriesOfOperation", "businessType", "industryType", "billingAddress",
      "billing_contact_name", "billing_email", "start_date",
      "contact_person_designation", "contact_person_number", "chervic_date",
      "contact_person_sign_date">>

date_fields == <<"start_date", "chervic_date", "contact_person_sign_date">>

optional_fields ==
    <<"chervic_name", "chervic_title", "customer_sign_name", "customer_sign_title",
      "agreement_date">>

Range(seq) == {seq[i] : i \in 1..Len(seq)}

\* A variant of FieldValue without strip().
FieldValueUnstripped(form, field) == Get(form, field, EMPTY)

\* request.form.get(field, '').strip()
FieldValue(form, field) == Strip(Get(form, field, EMPTY))

\* lines 877-882: the fields are checked and stored in order; the loop ends
\* at the first blank one
RECURSIVE RequiredLoop(_, _, _)
RequiredLoop(data, form, i) ==
    IF i > Len(required_fields) THEN [data |-> data, missing |-> ""]
    ELSE IF FieldValue(form, required_fields[i]) = EMPTY
         THEN [data |-> data, missing |-> required_fields[i]]
         ELSE RequiredLoop(Put(data, required_fields[i],
                               sanitize_input(FieldValue(form, required_fields[i]))),
                           form, i + 1)

\* lines 883-887: the first date field that validate_date rejects, or ""
RECURSIVE FirstBadDate(_, _)
FirstBadDate(data, i) ==
    IF i > Len(date_fields) THEN ""
    ELSE IF ~validate_date(data[date_fields[i]]) THEN date_fields[i]
         ELSE FirstBadDate(data, i + 1)

\* lines 888-890
RECURSIVE OptionalLoop(_, _, _)
OptionalLoop(data, form, i) ==
    IF i > Len(optional_fields) THEN data
    ELSE OptionalLoop(Put(data, optional_fields[i],
                          sanitize_input(Get(form, optional_fields[i], EMPTY))),
                      form, i + 1)

Msg(kind, field) == [kind |-> kind, field |-> field]

NoMsg == Msg("", "")

\* No signature was sent for a party
NoUpload == [filename |-> EMPTY, content |-> EMPTY]

\* A variant of StoreSignature that goes on when save_signature returned
\* None, as if lines 901-903 were not there.
StoreSignatureUnchecked(w, data, sig, prefix, key) ==
    LET canvas == sig.data # EMPTY /\ StartsWithDataImage(sig.data)
        upload == sig.file.filename # EMPTY /\ allowed_file(sig.file.filename)
        saved == IF canvas THEN save_signature(w, sig.data, prefix, FALSE)
                 ELSE save_signature(w, sig.file, prefix, TRUE)
    IN IF ~canvas /\ ~upload
       THEN [w |-> w, data |-> data, ok |-> FALSE, called |-> FALSE, saved |-> FALSE,
             msg |-> Msg("signature_required", prefix)]
       ELSE IF saved.ret = None
       THEN [w |-> saved.w, data |-> data, ok |-> TRUE, called |-> TRUE,
             saved |-> FALSE, msg |-> NoMsg]
       ELSE [w |-> saved.w,
             data |-> Put(data, key, saved.w.sess["signatures"][saved.ret]),
             ok |-> TRUE, called |-> TRUE, saved |-> TRUE, msg |-> NoMsg]

\* lines 895-913 and 914-932: one party's signature.  sig.data is the canvas
\* field, sig.file the upload; key is the entry of data that gets the path.
\* called: save_signature was called; saved: it returned a file name; ok: the
\* handler goes on.
StoreSignature(w, data, sig, prefix, key) ==
    LET canvas == sig.data # EMPTY /\ StartsWithDataImage(sig.data)
        upload == sig.file.filename # EMPTY /\ allowed_file(sig.file.filename)
        saved == IF canvas THEN save_signature(w, sig.data, prefix, FALSE)
                 ELSE save_signature(w, sig.file, prefix, TRUE)
    IN IF ~canvas /\ ~upload
       THEN [w |-> w, data |-> data, ok |-> FALSE, called |-> FALSE, saved |-> FALSE,
             msg |-> Msg("signature_required", prefix)]
       ELSE IF saved.ret = None
       THEN [w |-> saved.w, data |-> data, ok |-> FALSE, called |-> TRUE,
             saved |-> FALSE,
             msg |-> Msg(IF canvas THEN "canvas_failed" ELSE "file_failed", prefix)]
       ELSE [w |-> saved.w,
             data |-> Put(data, key, saved.w.sess["signatures"][saved.ret]),
             ok |-> TRUE, called |-> TRUE, saved |-> TRUE, msg |-> NoMsg]

\* lines 938-944
Changes(data) ==
    [fields_updated |->
        [k \in DOMAIN data \cap (Range(required_fields) \cup Range(optional_fields))
            |-> data[k]],
     signatures_added |->
        [chervic |-> "chervic_signature" \in DOMAIN data,
         customer |-> "customer_signature" \in DOMAIN data]]

\* data is session['form_data'] itself when the session has one, so what the
\* handler stores in data is stored in the session; every exit of the
\* handler calls flash(), which marks the session modified.
WithData(w, data, aliased) ==
    IF aliased THEN [w EXCEPT !.sess = Put(w.sess, "form_data", data)] ELSE w

\* a call the handler made, and whether it returned a result (did not
\* return None, did not raise)
Call(fn, ok) == [fn |-> fn, ok |-> ok]

\* What a part of the handler hands on: halt, whether the handler returned
\* in it; w and data, the world and the data dictionary after it; the
\* response when it returned.
Step(halt, w, data, outcome, msg, calls, gp, stuck) ==
    [halt |-> halt, w |-> w, data |-> data, outcome |-> outcome, msg |-> msg,
     calls |-> calls, gp |-> gp, stuck |-> stuck, fault |-> ""]

\* lines 866-894: the login check, the required fields, the dates, the
\* optional fields and the network id
ValidateForm(w, form) ==
    LET aliased == "form_data" \in DOMAIN w.sess
        data0 == Get(w.sess, "form_data", EMPTY)
        req1 == RequiredLoop(data0, form, 1)
        badDate == FirstBadDate(req1.data, 1)
        data2 == OptionalLoop(req1.data, form, 1)
        ariba == sanitize_input(Get(form, "aribaNetworkId",
                                    Get(w.sess, "aribaNetworkId", EMPTY)))
        data3 == Put(data2, "aribaNetworkId", ariba)
        w3 == IF ariba # EMPTY
              THEN [w EXCEPT !.sess = Put(w.sess, "aribaNetworkId", ariba)]
              ELSE w
    IN IF "user" \notin DOMAIN w.sess
       THEN Step(TRUE, w, EMPTY, "redirect_login", Msg("login_required", ""), EMPTY,
                 NoGp, {})
       ELSE IF req1.missing # ""
       THEN Step(TRUE, WithData(w, req1.data, aliased), req1.data, "form_error",
                 Msg("required", req1.missing), EMPTY, NoGp, {})
       ELSE IF badDate # ""
       THEN Step(TRUE, WithData(w, req1.data, aliased), req1.data, "form_error",
                 Msg("invalid_date", badDate), EMPTY, NoGp, {})
       ELSE Step(FALSE, WithData(w3, data3, aliased), data3, "", NoMsg, EMPTY, NoGp, {})

\* lines 895-932: the provider's signature, then the customer's
StoreSignatures(st, chervicSig, customerSig) ==
    LET aliased == "form_data" \in DOMAIN st.w.sess
        chervic == StoreSignature(st.w, st.data, chervicSig, "chervic",
                                  "chervic_signature")
        customer == StoreSignature(chervic.w, chervic.data, customerSig, "customer",
                                   "customer_signature")
        callsC == IF chervic.called THEN <<Call("save_signature", chervic.saved)>> ELSE EMPTY
        callsK == callsC \o (IF customer.called
                             THEN <<Call("save_signature", customer.saved)>> ELSE EMPTY)
    IN IF ~chervic.ok
       THEN Step(TRUE, WithData(chervic.w, chervic.data, aliased), chervic.data,
                 "form_error", chervic.msg, callsC, NoGp, {})
       ELSE IF ~customer.ok
       THEN Step(TRUE, WithData(customer.w, customer.data, aliased), customer.data,
                 "form_error", customer.msg, callsK, NoGp, {})
       ELSE Step(FALSE, WithData(customer.w, customer.data, aliased), customer.data,
                 "", NoMsg, callsK, NoGp, {})

\* lines 933-951: the form data is stored, the agreement generated and the
\* history entry written
GenerateAgreement(st, env, fault) ==
    LET w5 == [st.w EXCEPT !.sess = Put(st.w.sess, "form_data", st.data)]
        pdf == generate_pdf(w5, st.data, env)
        callsP == st.calls \o <<Call("generate_pdf", pdf.gp.returned),
                                Call("create_document", pdf.gp.stage # "document")>>
        w6 == save_edit_history(pdf.w, pdf.gp.id, st.w.sess["user"].username,
                                Changes(st.data), fault)
    IN IF ~pdf.gp.returned
       THEN Step(TRUE, pdf.w, st.data, "form_error", Msg("generation_error", ""),
                 callsP, pdf.gp, env.stuck)
       ELSE IF HistoryErrorSurfaces(fault)
       THEN Step(TRUE, w6, st.data, "form_error", Msg("generation_error", ""),
                 Append(callsP, Call("save_edit_history", FALSE)), pdf.gp, env.stuck)
       ELSE [Step(TRUE, w6, st.data, "redirect_view_pdf", Msg("success", ""),
                  Append(callsP, Call("save_edit_history", TRUE)), pdf.gp, env.stuck)
                EXCEPT !.fault = fault]

(***************************************************************************)
(* login_user and the collaborators behind it                              *)
(***************************************************************************)
ALLOWED_ROLE == "BUSINESS_DEVELOPMENT_USER"

\* A variant of login_user without the role check of lines 620-622.
login_user_any_role(sess, username, api) ==
    IF ~api.credentials THEN [sess |-> sess, raised |-> TRUE]
    ELSE IF api.id = "" THEN [sess |-> sess, raised |-> TRUE]
    ELSE [sess |-> Put(Put(sess, "user",
                           [id |-> api.id, username |-> username, role |-> api.role]),
                       "cookies", <<"cookie", username>>),
          raised |-> FALSE]

\* api: what the identity API answers.  credentials: POST /auth/login
\* succeeded; role: the userRole of GET /auth/role, "" when that request
\* failed; id: the user id of either answer, "" when neither has one.
login_user(sess, username, api) ==
    IF ~api.credentials THEN [sess |-> sess, raised |-> TRUE]
    ELSE IF api.role = "" THEN [sess |-> sess, raised |-> TRUE]
    ELSE IF api.role # ALLOWED_ROLE THEN [sess |-> sess, raised |-> TRUE]
    ELSE IF api.id = "" THEN [sess |-> sess, raised |-> TRUE]
    ELSE [sess |-> Put(Put(sess, "user",
                           [id |-> api.id, username |-> username, role |-> api.role]),
                       "cookies", <<"cookie", username>>),
          raised |-> FALSE]

(***************************************************************************)
(* fetch_ariba_network_ids                                                 *)
(***************************************************************************)
\* upstream: what GET /domain?index=0&limit=100 does.  status "ok" with the
\* domain records of the answer, "transport" (the request raised a
\* requests.RequestException) or "http" (raise_for_status raised).  The
\* except clause of line 712 catches requests.RequestException only; the
\* AuthenticationError of line 704 is an Exception and passes through it.
fetch_ariba_network_ids(sess, upstream) ==
    IF "cookies" \notin DOMAIN sess
    THEN [raised |-> "AuthenticationError", ret |-> EMPTY, flashed |-> FALSE]
    ELSE IF upstream.status # "ok"
    THEN [raised |-> "", ret |-> EMPTY, flashed |-> TRUE]
    ELSE [raised |-> "",
          ret |-> [i \in 1..Len(SelectSeq(upstream.domains,
                                           LAMBDA d : Get(d, "aribaNetworkId", EMPTY) # EMPTY))
                     |-> SelectSeq(upstream.domains,
                                   LAMBDA d : Get(d, "aribaNetworkId", EMPTY) # EMPTY)[i]
                             ["aribaNetworkId"]],
          flashed |-> FALSE]

(***************************************************************************)
(* index (GET /): the form defaults, overlaid with the domain record       *)
(***************************************************************************)
FormDefaults ==
    [k \in
    {"name", "websiteUrl", "registrationNumber", "headquartersLocation",
     "countriesOfOperation", "businessType", "industryType", "billingAddress",
     "otherLocalTaxId", "billing_contact_name", "billing_email", "start_date",
     "contact_person_designation", "contact_person_number", "chervic_date",
     "contact_person_sign_date"}
        |-> EMPTY]

ApiFields ==
    {"name", "websiteUrl", "registrationNumber", "headquartersLocation",
     "countriesOfOperation", "businessType", "industryType", "billingAddress"}

\* lines 850-852: the fields the domain record has
Overlay(data, api_data) ==
    [k \in DOMAIN data \cup (DOMAIN api_data \cap ApiFields) |->
        IF k \in DOMAIN api_data \cap ApiFields THEN api_data[k] ELSE data[k]]

\* domain: status "found" with the record, "none" (fetch_domain_data_by_ariba
\* returned None) or "error" (a fetch raised: the handler's except branch)
index(sess, domain) ==
    LET data == Get(sess, "form_data", FormDefaults)
        selected == Get(sess, "aribaNetworkId", EMPTY)
        filled == IF selected # EMPTY /\ domain.status = "found"
                  THEN Overlay(data, domain.record)
                  ELSE data
    IN IF domain.status = "error" THEN sess
       ELSE Put(sess, "form_data", filled)

(***************************************************************************)
(* download_pdf, download_docx, view_pdf, serve_pdf                        *)
(***************************************************************************)
\* A variant of Lookup without os.path.exists.
LookupRegistered(sess, fs, kind, filename) ==
    Get(Get(sess, kind, EMPTY), filename, NoPath)

\* A variant of Lookup that takes a fixed-layout file from the output
\* directory by its name, whoever registered it.
LookupOnDisk(sess, fs, kind, filename) ==
    LET filepath == IF kind = "pdfs" THEN Path(OUTPUT_DIR, filename)
                    ELSE Get(Get(sess, kind, EMPTY), filename, NoPath)
    IN IF filepath = NoPath \/ ~Exists(fs, filepath) THEN NoPath ELSE filepath

\* session.get(kind, {}).get(filename), then os.path.exists
Lookup(sess, fs, kind, filename) ==
    LET filepath == Get(Get(sess, kind, EMPTY), filename, NoPath)
    IN IF filepath = NoPath \/ ~Exists(fs, filepath) THEN NoPath ELSE filepath

(***************************************************************************)
(* logout                                                                  *)
(***************************************************************************)
\* the files one loop of logout unlinks: those of the map that exist and
\* whose removal does not fail
Unlinked(fs, paths, stuck) == {p \in paths : Exists(fs, p) /\ p.dir \notin stuck}

PathsOf(sess, kind) ==
    {Get(sess, kind, EMPTY)[k] : k \in DOMAIN Get(sess, kind, EMPTY)}

HistoryPathsOf(sess) ==
    {HistoryFile(k) : k \in DOMAIN Get(sess, "edit_history", EMPTY)}

\* lines 753-787
LogoutTracked(sess) ==
    PathsOf(sess, "pdfs") \cup PathsOf(sess, "docxs")
        \cup PathsOf(sess, "signatures") \cup HistoryPathsOf(sess)

\* A variant of Swept for a logout without lines 789-801.
SweptNone(ds, stuck) == {}

\* lines 795-801: the directories rmtree removes
Swept(ds, stuck) == {d \in StorageDirs : d \in ds /\ d \notin stuck}

logout(w, stuck) ==
    LET gone == Unlinked(w.files, LogoutTracked(w.sess), stuck)
        fs1 == [p \in DOMAIN w.files \ gone |-> w.files[p]]
        swept == Swept(w.dirs, stuck)
        fs2 == [p \in {q \in DOMAIN fs1 : q.dir \notin swept} |-> fs1[p]]
    IN [w EXCEPT !.files = fs2, !.dirs = w.dirs \ swept, !.sess = EMPTY]

(***************************************************************************)
(* The inputs of the requests.                                             *)
(***************************************************************************)
LoginAnswers ==
    {[credentials |-> FALSE, role |-> "", id |-> ""],
     [credentials |-> TRUE, role |-> "", id |-> ""],
     [credentials |-> TRUE, role |-> "ADMIN", id |-> "7"],
     [credentials |-> TRUE, role |-> ALLOWED_ROLE, id |-> ""],
     [credentials |-> TRUE, role |-> ALLOWED_ROLE, id |-> "7"]}

\* company names: one with a space, one that contains ".docx"
NameAB == <<"A", " ", "B">>
NameDocx == <<"X", ".", "d", "o", "c", "x">>

GoodDate == <<"2", "0", "2", "4", "-", "0", "1", "-", "0", "2">>

\* a date in another format, and a day that February does not have
BadDateOf(field) ==
    IF field = "chervic_date"
    THEN <<"2", "0", "2", "4", "-", "0", "2", "-", "3", "0">>
    ELSE <<"0", "2", "/", "0", "1", "/", "2", "0", "2", "4">>

DomainAnswers ==
    {[status |-> "error", record |-> EMPTY],
     [status |-> "none", record |-> EMPTY],
     [status |-> "found", record |-> [name |-> NameAB, id |-> <<"4", "2">>]]}

\* a posted form with every required field filled in
FilledForm(name) ==
    [k \in Range(required_fields) |->
        IF k = "name" THEN name
        ELSE IF k \in Range(date_fields) THEN GoodDate
        ELSE <<" ", "v", "<">>]

\* the form with the fields of `blank` left blank, one way or the other
BlankedForm(form, blank, how) ==
    [k \in DOMAIN form |-> IF k \in blank THEN how ELSE form[k]]

\* the form without the fields of `absent`
WithoutFields(form, absent) == [k \in DOMAIN form \ absent |-> form[k]]

CanvasGood == <<DATA_IMAGE, "/png;base64", COMMA, "QUJD">>
CanvasNoComma == <<DATA_IMAGE, "/png;base64">>
CanvasBadBase64 == <<DATA_IMAGE, "/png;base64", COMMA, "QUJ">>
CanvasNotImage == <<DATA_IMAGE, "/png;base64", COMMA, "REVG">>

UploadPng == [filename |-> <<"s", ".", "P", "N", "G">>, content |-> <<"png-bytes">>]
UploadGif == [filename |-> <<"s", ".", "g", "i", "f">>, content |-> <<"png-bytes">>]

Sig(data, file) == [data |-> data, file |-> file]

BadSigs ==
    {Sig(CanvasNoComma, NoUpload), Sig(CanvasBadBase64, UploadPng),
     Sig(EMPTY, UploadGif), Sig(EMPTY, NoUpload)}

StuckSets == {{}, {DOCX_DIR}, {OUTPUT_DIR}}

\* The converter and the file operations of one generate_pdf call; the
\* choices that cannot matter (a read after a failed conversion) are fixed.
Envs ==
    {e \in [conv : ConverterStatus, produced : BOOLEAN, readFault : BOOLEAN,
            stuck : StuckSets] :
        /\ e.conv = "oserror" => ~e.produced
        /\ (e.conv # "zero" \/ ~e.produced) => ~e.readFault
        /\ (e.conv = "zero" /\ e.produced /\ ~e.readFault) => e.stuck = {}}

GoodEnv == [conv |-> "zero", produced |-> TRUE, readFault |-> FALSE, stuck |-> {}]

Request(form, chervic, customer, env, fault) ==
    [form |-> form, chervic |-> chervic, customer |-> customer, env |-> env,
     fault |-> fault]

\* The submissions of a set, grouped by what the handler reads first: the
\* form, then the signatures, then the outcomes of the generation.
Grouped(reqs) ==
    {[form |-> f,
      sigs |-> {[chervic |-> r.chervic, customer |-> r.customer,
                 outcomes |-> {<<x.env, x.fault>> :
                                 x \in {y \in reqs : /\ y.form = f
                                                      /\ y.chervic = r.chervic
                                                      /\ y.customer = r.customer}}] :
                r \in {y \in reqs : y.form = f}}] :
        f \in {r.form : r \in reqs}}

\* the required fields a submission leaves blank: the first one, the last
\* one, and two at once
BlankChoices ==
    {{"name"}, {"contact_person_sign_date"}, {"websiteUrl", "billing_email"}}

\* Every kind of submission: with required fields blank or absent, with one
\* date field in a wrong format, with a signature that is not accepted, and
\* valid ones under every outcome of the converter and of the files.
Requests ==
    {Request(BlankedForm(FilledForm(NameAB), b, how), Sig(CanvasGood, NoUpload),
             Sig(EMPTY, UploadPng), GoodEnv, "none") :
        b \in BlankChoices, how \in {EMPTY, <<" ", " ">>}}
    \cup
    {Request(WithoutFields(FilledForm(NameAB), b), Sig(CanvasGood, NoUpload),
             Sig(EMPTY, UploadPng), GoodEnv, "none") : b \in BlankChoices}
    \cup
    {Request([FilledForm(NameAB) EXCEPT ![f] = BadDateOf(f)], Sig(CanvasGood, NoUpload),
             Sig(EMPTY, UploadPng), GoodEnv, "none") :
        f \in {"start_date", "chervic_date"}}
    \cup
    {Request(FilledForm(NameAB), Sig(CanvasGood, NoUpload), k, GoodEnv, "none") :
        k \in BadSigs}
    \cup
    {Request(FilledForm(NameAB), c, Sig(CanvasGood, NoUpload), GoodEnv, "none") :
        c \in BadSigs}
    \cup
    {Request(FilledForm(NameAB), Sig(CanvasGood, NoUpload), Sig(EMPTY, UploadPng),
             eh[1], eh[2]) :
        eh \in {x \in Envs \X HistoryFaults : x[1] = GoodEnv \/ x[2] = "none"}}
    \cup
    {Request(FilledForm(NameDocx), Sig(CanvasGood, NoUpload), Sig(EMPTY, UploadPng),
             e, "none") : e \in {x \in Envs : x.stuck = {}}}
    \cup
    {Request(FilledForm(NameAB) @@ [aribaNetworkId |-> <<"N", "1">>],
             Sig(CanvasNotImage, NoUpload), Sig(EMPTY, UploadPng), GoodEnv, "none")}

\* The submissions of the runs with two sessions: a valid one, one with a
\* blank field, one with a second signature that is not accepted.
FewSubmissions ==
    Grouped(
    {Request(FilledForm(NameAB), Sig(CanvasGood, NoUpload), Sig(EMPTY, UploadPng),
             GoodEnv, "none"),
     Request(BlankedForm(FilledForm(NameAB), {"websiteUrl"}, EMPTY),
             Sig(CanvasGood, NoUpload), Sig(EMPTY, UploadPng), GoodEnv, "none"),
     Request(FilledForm(NameAB), Sig(CanvasGood, NoUpload), Sig(EMPTY, UploadGif),
             GoodEnv, "none")})

AllSubmissions == Grouped(Requests)

\* The submissions of the runs in which a session submits twice: valid ones
\* under every fault of the history log, one whose conversion fails and one
\* with a blank field.
RepeatSubmissions ==
    Grouped(
    {Request(FilledForm(NameAB), Sig(CanvasGood, NoUpload), Sig(EMPTY, UploadPng),
             GoodEnv, h) : h \in HistoryFaults}
    \cup
    {Request(FilledForm(NameAB), Sig(CanvasGood, NoUpload), Sig(EMPTY, UploadPng),
             [GoodEnv EXCEPT !.conv = "nonzero"], "none"),
     Request(BlankedForm(FilledForm(NameAB), {"websiteUrl"}, EMPTY),
             Sig(CanvasGood, NoUpload), Sig(EMPTY, UploadPng), GoodEnv, "none")})

(***************************************************************************)
(* The requests.                                                           *)
(***************************************************************************)
Authed(s) == "user" \in DOMAIN session[s]

\* no function was called on its own
NoCall == [fn |-> ""]

\* no signature fields were read
NoSigs == [chervic |-> Sig(EMPTY, NoUpload), customer |-> Sig(EMPTY, NoUpload)]

\* The last request: the handler, the session, whether the session held a
\* user, the response, the calls made, what was served, the form and the
\* signature fields that were posted and read, and the directories in which
\* a removal failed.  fault: the fault of the history log in a submission
\* that got as far as writing it; call: the arguments and the result of a
\* function that was called on its own; data: the data dictionary of a
\* submission that is waiting for the converter.
Last(op, s, outcome, msg, calls, gp, served, form, sigs, stuck) ==
    [op |-> op, sess |-> s, authed |-> Authed(s), outcome |-> outcome, msg |-> msg,
     calls |-> calls, gp |-> gp, served |-> served, form |-> form, sigs |-> sigs,
     stuck |-> stuck, fault |-> "", call |-> NoCall, data |-> EMPTY]

ServeOps == {"download_pdf", "download_docx", "view_pdf", "serve_pdf"}

\* the artifact ids registered in a session
IdsOf(sess) == DOMAIN Get(sess, "pdfs", EMPTY) \cup DOMAIN Get(sess, "docxs", EMPTY)

Init ==
    /\ session = [s \in Sessions |-> EMPTY]
    /\ files = EMPTY
    /\ dirs = StorageDirs
    /\ nextUuid = [s \in Sessions |-> 0]
    /\ retired = {}
    /\ inflight = [busy |-> FALSE]
    /\ last = [op |-> "", sess |-> "", authed |-> FALSE, outcome |-> "", msg |-> NoMsg,
               calls |-> EMPTY, gp |-> NoGp, served |-> NoPath, form |-> EMPTY,
               sigs |-> NoSigs, stuck |-> {}, fault |-> "", call |-> NoCall,
               data |-> EMPTY]

\* POST /login
Login(s) ==
    \E username \in {"bdu"}, api \in LoginAnswers :
        \E r \in {login_user(session[s], username, api)} :
           /\ session' = [session EXCEPT ![s] = r.sess]
           /\ last' = [Last("login", s,
                             IF r.raised THEN "login_form" ELSE "redirect_index",
                             Msg(IF r.raised THEN "auth_error" ELSE "success", ""),
                             EMPTY, NoGp, NoPath, EMPTY, NoSigs, {})
                          EXCEPT !.call = [fn |-> "login_user", username |-> username,
                                           api |-> api, raised |-> r.raised]]
           /\ UNCHANGED <<files, dirs, nextUuid, retired, inflight>>

\* GET /
Index(s) ==
    \E domain \in DomainAnswers :
        /\ session' = [session EXCEPT ![s] =
                          IF Authed(s) THEN index(session[s], domain) ELSE session[s]]
        /\ last' = Last("index", s, IF Authed(s) THEN "form" ELSE "redirect_login",
                        NoMsg, EMPTY, NoGp, NoPath, EMPTY, NoSigs, {})
        /\ UNCHANGED <<files, dirs, nextUuid, retired, inflight>>

\* POST /fetch_domain_data
FetchDomainData(s) ==
    \E id \in {<<"N", "1">>, EMPTY}, domain \in {d \in DomainAnswers : d.status # "error"} :
        LET found == Authed(s) /\ id # EMPTY /\ domain.status = "found"
        IN /\ session' = [session EXCEPT ![s] =
                             IF found THEN Put(session[s], "aribaNetworkId", id)
                             ELSE session[s]]
           /\ last' = Last("fetch_domain_data", s,
                           IF ~Authed(s) THEN "401"
                           ELSE IF id = EMPTY THEN "400"
                           ELSE IF domain.status = "found" THEN "200"
                           ELSE IF domain.status = "none" THEN "404" ELSE "500",
                           NoMsg, EMPTY, NoGp, NoPath, EMPTY, NoSigs, {})
           /\ UNCHANGED <<files, dirs, nextUuid, retired, inflight>>

\* the state after a submission that ended as st says
Submitted(s, st, form, sigs, limit) ==
    /\ st.w.uuid <= limit
    /\ session' = [session EXCEPT ![s] = st.w.sess]
    /\ files' = st.w.files
    /\ dirs' = st.w.dirs
    /\ nextUuid' = [nextUuid EXCEPT ![s] = st.w.uuid]
    /\ last' = [Last("submit", s, st.outcome, st.msg, st.calls, st.gp, NoPath, form,
                      sigs, st.stuck) EXCEPT !.fault = st.fault]
    /\ UNCHANGED <<retired, inflight>>

\* POST /submit (generate_nda); limit bounds the uuid4 values of the session
Submit(s, submissions, limit) ==
    \E g \in submissions :
        \E a \in {ValidateForm(World(s, session[s], files, dirs, nextUuid[s]), g.form)} :
            IF a.halt THEN Submitted(s, a, g.form, NoSigs, limit)
            ELSE \E sg \in g.sigs :
                    \E b \in {StoreSignatures(a, sg.chervic, sg.customer)} :
                        LET sigs == [chervic |-> sg.chervic, customer |-> sg.customer]
                        IN IF b.halt THEN Submitted(s, b, g.form, sigs, limit)
                           ELSE \E o \in sg.outcomes :
                                   Submitted(s, GenerateAgreement(b, o[1], o[2]),
                                             g.form, sigs, limit)

\* the artifact names a client can ask for: those any session registered,
\* and one that was never generated
KnownIds ==
    UNION {IdsOf(session[s]) : s \in Sessions} \cup retired
        \cup {<<"MSA_", "n", "o", "n", "e", ".", "p", "d", "f">>}

Serve(op, kind, s, sends) ==
    \E filename \in KnownIds :
        LET filepath == Lookup(session[s], files, kind, filename)
        IN /\ last' = Last(op, s,
                           IF ~Authed(s) THEN "redirect_login"
                           ELSE IF filepath = NoPath THEN "redirect_index"
                           ELSE IF sends THEN "send_file" ELSE "render_view_pdf",
                           IF ~Authed(s) THEN Msg("login_required", "")
                           ELSE IF filepath = NoPath THEN Msg("not_found", "")
                           ELSE NoMsg,
                           EMPTY, [NoGp EXCEPT !.id = filename],
                           IF Authed(s) /\ sends THEN filepath ELSE NoPath, EMPTY, NoSigs, {})
           /\ UNCHANGED <<session, files, dirs, nextUuid, retired, inflight>>

\* GET /download_pdf/<filename>
DownloadPdf(s) == Serve("download_pdf", "pdfs", s, TRUE)

\* GET /download_docx/<filename>
DownloadDocx(s) == Serve("download_docx", "docxs", s, TRUE)

\* GET /view_pdf/<filename>
ViewPdf(s) == Serve("view_pdf", "pdfs", s, FALSE)

\* GET /serve_pdf/<filename>
ServePdf(s) == Serve("serve_pdf", "pdfs", s, TRUE)

\* GET /logout
Logout(s) ==
    \E stuck \in StuckSets :
        \E w \in {logout(World(s, session[s], files, dirs, nextUuid[s]), stuck)} :
           /\ session' = [session EXCEPT ![s] = w.sess]
           /\ files' = w.files
           /\ dirs' = w.dirs
           /\ retired' = retired \cup IdsOf(session[s])
           /\ last' = Last("logout", s, "redirect_login", Msg("logged_out", ""),
                           EMPTY, NoGp, NoPath, EMPTY, NoSigs, stuck)
           /\ UNCHANGED <<nextUuid, inflight>>

\* One session, every kind of submission.
Next ==
    \E s \in {"s1"} :
        \/ Login(s)
        \/ Index(s)
        \/ FetchDomainData(s)
        \/ Submit(s, AllSubmissions, MaxUuid)
        \/ DownloadPdf(s)
        \/ DownloadDocx(s)
        \/ ViewPdf(s)
        \/ ServePdf(s)
        \/ Logout(s)

Spec == Init /\ [][Next]_vars

\* Two sessions on the same server, a few kinds of submission.
NextTwo ==
    \E s \in Sessions :
        \/ Login(s)
        \/ Submit(s, FewSubmissions, MaxUuid)
        \/ DownloadPdf(s)
        \/ DownloadDocx(s)
        \/ ViewPdf(s)
        \/ ServePdf(s)
        \/ Logout(s)

SpecTwo == Init /\ [][NextTwo]_vars

\* One session with uuid4 values for two whole submissions.
NextRepeat ==
    \E s \in {"s1"} :
        \/ Login(s)
        \/ Submit(s, RepeatSubmissions, 2 * MaxUuid)
        \/ DownloadPdf(s)
        \/ Logout(s)

SpecRepeat == Init /\ [][NextRepeat]_vars

(***************************************************************************)
(* A submission in steps: the handler up to subprocess.run, the converter  *)
(* process, and the handler from the return of subprocess.run on.          *)
(***************************************************************************)
\* lines 933-934 and 534-546: the form data is stored, the document
\* assembled and written; started: subprocess.run was entered
StartConversion(st) ==
    LET w5 == [st.w EXCEPT !.sess = Put(st.w.sess, "form_data", st.data)]
        doc == create_document(w5.files, st.data)
        filename == DocxFilename(st.data["name"], Hex(w5.sid, w5.uuid + 1))
        docx_filepath == Path(DOCX_DIR, filename)
    IN [started |-> ~doc.raised /\ CanWrite(w5.dirs, docx_filepath),
        w |-> [w5 EXCEPT !.files = Put(w5.files, docx_filepath, doc.buffer)]]

\* the handler of session s is inside subprocess.run (lines 547-558)
Pending(s) == last.op = "submit" /\ last.sess = s /\ last.outcome = "pending"

AnyPending == \E s \in Sessions : Pending(s)

\* the ways the converter exits
ExitEnvs == {GoodEnv, [GoodEnv EXCEPT !.conv = "nonzero"]}

\* POST /submit up to the call of subprocess.run; a submission that does
\* not get that far is answered at once
ReceiveSubmit(s, submissions, limit) ==
    /\ ~AnyPending
    /\ \E g \in submissions :
          \E a \in {ValidateForm(World(s, session[s], files, dirs, nextUuid[s]), g.form)} :
             IF a.halt THEN Submitted(s, a, g.form, NoSigs, limit)
             ELSE \E sg \in g.sigs :
                     \E b \in {StoreSignatures(a, sg.chervic, sg.customer)} :
                        LET sigs == [chervic |-> sg.chervic, customer |-> sg.customer]
                            p == StartConversion(b)
                        IN IF b.halt THEN Submitted(s, b, g.form, sigs, limit)
                           ELSE IF ~p.started
                           THEN \E r \in {GenerateAgreement(b, GoodEnv, "none")} :
                                   Submitted(s, r, g.form, sigs, limit)
                           ELSE /\ b.w.uuid + 1 <= limit
                                /\ session' = [session EXCEPT ![s] = p.w.sess]
                                /\ files' = p.w.files
                                /\ nextUuid' = [nextUuid EXCEPT ![s] = b.w.uuid]
                                /\ last' = [Last("submit", s, "pending", NoMsg, b.calls,
                                                  NoGp, NoPath, g.form, sigs, {})
                                               EXCEPT !.data = b.data, !.call = [fn |-> "subprocess.run", exited |-> FALSE,
                                                             env |-> GoodEnv]]
                                /\ UNCHANGED <<dirs, retired, inflight>>

\* the converter process exits; nothing in lines 547-558 makes it
ConverterExits(s) ==
    /\ Pending(s)
    /\ ~last.call.exited
    /\ \E env \in ExitEnvs :
          last' = [last EXCEPT !.call.exited = TRUE, !.call.env = env]
    /\ UNCHANGED <<session, files, dirs, nextUuid, retired, inflight>>

\* subprocess.run has returned or raised: lines 559-585 and 936-951
FinishSubmit(s, limit) ==
    /\ Pending(s)
    /\ last.call.exited
    /\ \E fault \in HistoryFaults :
          \E r \in {GenerateAgreement([w |-> World(s, session[s], files, dirs,
                                                   nextUuid[s]),
                                        data |-> last.data, calls |-> last.calls],
                                       last.call.env, fault)} :
             Submitted(s, r, last.form, last.sigs, limit)

\* One worker: a request is received when no other is being handled.
NextHang ==
    \E s \in {"s1"} :
        \/ ~AnyPending /\ Login(s)
        \/ ReceiveSubmit(s, RepeatSubmissions, 2 * MaxUuid)
        \/ ConverterExits(s)
        \/ FinishSubmit(s, 2 * MaxUuid)
        \/ ~AnyPending /\ DownloadPdf(s)
        \/ ~AnyPending /\ Logout(s)

\* The handler goes on once subprocess.run has returned; nothing is assumed
\* of the converter process.
SpecHang ==
    /\ Init
    /\ [][NextHang]_vars
    /\ WF_vars(\E s \in {"s1"} : FinishSubmit(s, 2 * MaxUuid))

(***************************************************************************)
(* A logout in steps: the four unlink loops, the rmtree loop, and          *)
(* session.clear() with the redirect.                                      *)
(***************************************************************************)
\* lines 753-787; stuck: the directories in which os.unlink fails
LogoutUnlink(s) ==
    /\ last.outcome \notin {"unlinked", "swept"}
    /\ \E stuck \in StuckSets :
          /\ files' = [p \in DOMAIN files \ Unlinked(files, LogoutTracked(session[s]), stuck)
                          |-> files[p]]
          /\ last' = Last("logout", s, "unlinked", NoMsg, EMPTY, NoGp, NoPath, EMPTY,
                          NoSigs, stuck)
    /\ UNCHANGED <<session, dirs, nextUuid, retired, inflight>>

\* lines 789-801; stuck: the directories on which shutil.rmtree fails
LogoutSweep(s) ==
    /\ last.op = "logout" /\ last.sess = s /\ last.outcome = "unlinked"
    /\ \E stuck \in StuckSets \cup {{EDIT_HISTORY_DIR}} :
          /\ dirs' = dirs \ Swept(dirs, stuck)
          /\ files' = [p \in {q \in DOMAIN files : q.dir \notin Swept(dirs, stuck)}
                          |-> files[p]]
          /\ last' = Last("logout", s, "swept", NoMsg, EMPTY, NoGp, NoPath, EMPTY,
                          NoSigs, stuck)
    /\ UNCHANGED <<session, nextUuid, retired, inflight>>

\* lines 803-805
LogoutClear(s) ==
    /\ last.op = "logout" /\ last.sess = s /\ last.outcome = "swept"
    /\ session' = [session EXCEPT ![s] = EMPTY]
    /\ retired' = retired \cup IdsOf(session[s])
    /\ last' = Last("logout", s, "redirect_login", Msg("logged_out", ""), EMPTY, NoGp,
                    NoPath, EMPTY, NoSigs, last.stuck)
    /\ UNCHANGED <<files, dirs, nextUuid, inflight>>

\* One worker: a request is received when no logout is under way.
NextTeardown ==
    \E s \in {"s1"} :
        \/ last.outcome \notin {"unlinked", "swept"} /\ Login(s)
        \/ last.outcome \notin {"unlinked", "swept"} /\ Submit(s, RepeatSubmissions, MaxUuid)
        \/ LogoutUnlink(s)
        \/ LogoutSweep(s)
        \/ LogoutClear(s)

SpecTeardown == Init /\ [][NextTeardown]_vars

(***************************************************************************)
(* Two submissions of one session that overlap.  The session is Flask's    *)
(* signed cookie (line 22): a request works on the dictionary read from    *)
(* the cookie it came with, and its response carries that dictionary back. *)
(***************************************************************************)
\* A variant of ResponseSession in which the response adds to the maps the
\* browser holds instead of replacing them.
ResponseSessionMerged(browser, request) ==
    [k \in DOMAIN browser \cup DOMAIN request |->
        IF k \in {"signatures", "pdfs", "docxs"} /\ k \in DOMAIN browser
        THEN [n \in DOMAIN browser[k] \cup DOMAIN Get(request, k, EMPTY) |->
                 IF n \in DOMAIN Get(request, k, EMPTY) THEN request[k][n]
                 ELSE browser[k][n]]
        ELSE IF k \in DOMAIN request THEN request[k] ELSE browser[k]]

\* the session the browser holds after a response: the dictionary of the
\* request that answered, whatever the browser held (lines 97-99, 569-573:
\* the maps are changed in the request's dictionary and saved with it)
ResponseSession(browser, request) == request

\* POST /submit of a logged-in session arrives and reads the session
\* cookie; the handler runs while other requests of the session are served
BeginSubmit(s) ==
    /\ ~inflight.busy
    /\ Authed(s)
    /\ \E g \in RepeatSubmissions :
          \E sg \in g.sigs :
             \E o \in sg.outcomes :
                inflight' = [busy |-> TRUE, sid |-> s, sess |-> session[s],
                             form |-> g.form, chervic |-> sg.chervic,
                             customer |-> sg.customer, env |-> o[1], fault |-> o[2]]
    /\ UNCHANGED <<session, files, dirs, nextUuid, retired, last>>

\* the handler of that request runs on its own dictionary and answers
EndSubmit(s, limit) ==
    /\ inflight.busy
    /\ inflight.sid = s
    /\ \E a \in {ValidateForm(World(s, inflight.sess, files, dirs, nextUuid[s]),
                               inflight.form)} :
          \E b \in {IF a.halt THEN a
                     ELSE StoreSignatures(a, inflight.chervic, inflight.customer)} :
             \E r \in {IF b.halt THEN b
                        ELSE GenerateAgreement(b, inflight.env, inflight.fault)} :
                /\ r.w.uuid <= limit
                /\ session' = [session EXCEPT ![s] = ResponseSession(session[s], r.w.sess)]
                /\ files' = r.w.files
                /\ dirs' = r.w.dirs
                /\ nextUuid' = [nextUuid EXCEPT ![s] = r.w.uuid]
                /\ last' = [Last("submit", s, r.outcome, r.msg, r.calls, r.gp, NoPath,
                                  inflight.form,
                                  IF a.halt THEN NoSigs
                                  ELSE [chervic |-> inflight.chervic,
                                        customer |-> inflight.customer],
                                  r.stuck)
                               EXCEPT !.fault = r.fault,
                                      !.authed = "user" \in DOMAIN inflight.sess]
    /\ inflight' = [busy |-> FALSE]
    /\ UNCHANGED retired

\* One session whose submissions may overlap.
NextRace ==
    \E s \in {"s1"} :
        \/ Login(s)
        \/ Submit(s, RepeatSubmissions, 2 * MaxUuid)
        \/ BeginSubmit(s)
        \/ EndSubmit(s, 2 * MaxUuid)

SpecRace == Init /\ [][NextRace]_vars

(***************************************************************************)
(* The functions, called on their own with inputs the handlers do not give *)
(* them.                                                                   *)
(***************************************************************************)
\* save_signature(data, prefix, is_file) in the session of s; among the
\* data URIs, some without the prefix, with a character outside the base64
\* alphabet, with a second comma, with nothing after the comma
SaveSignature(s) ==
    \E prefix \in {"chervic", "customer"}, is_file \in BOOLEAN :
        \E data \in IF is_file THEN {UploadPng, UploadGif} ELSE
                {EMPTY, CanvasGood, CanvasNoComma, CanvasBadBase64, CanvasNotImage,
                 <<"text/plain", COMMA, "QUJD">>,
                 <<DATA_IMAGE, "/png;base64", COMMA, "QUJD", "!">>,
                 <<DATA_IMAGE, "/png;base64", COMMA, "QUJD", COMMA, "REVG">>,
                 <<DATA_IMAGE, "/png;base64", COMMA, "QUJD", COMMA, "QUJ">>,
                 <<DATA_IMAGE, "/png;base64", COMMA>>} :
            \E r \in {save_signature(World(s, session[s], files, dirs, nextUuid[s]),
                                     data, prefix, is_file)} :
               /\ r.w.uuid <= MaxUuid
               /\ session' = [session EXCEPT ![s] = r.w.sess]
               /\ files' = r.w.files
               /\ nextUuid' = [nextUuid EXCEPT ![s] = r.w.uuid]
               /\ last' = [Last("save_signature", s, "", NoMsg, EMPTY, NoGp, NoPath,
                                 EMPTY, NoSigs, {})
                              EXCEPT !.call = [fn |-> "save_signature", data |-> data,
                                               prefix |-> prefix, is_file |-> is_file,
                                               ret |-> r.ret, modified |-> r.modified]]
               /\ UNCHANGED <<dirs, retired, inflight>>

\* what a content mapping can hold under a signature key: nothing, a path
\* that was never written, or a signature the session stored
SignatureChoices(sess) ==
    {NoPath, Path(SIGNATURE_DIR, <<"gone", ".png">>)} \cup PathsOf(sess, "signatures")

\* the content mapping with the company name and the chosen signatures
ContentOf(customer, chervic) ==
    [k \in {"name"} \cup (IF customer = NoPath THEN {} ELSE {"customer_signature"})
                     \cup (IF chervic = NoPath THEN {} ELSE {"chervic_signature"}) |->
        IF k = "name" THEN NameAB
        ELSE IF k = "customer_signature" THEN customer ELSE chervic]

\* generate_pdf(content) in the session of s; error is the exception of
\* create_document, "" when it returned
GeneratePdf(s) ==
    \E customer \in SignatureChoices(session[s]), chervic \in SignatureChoices(session[s]),
       env \in ExitEnvs :
        \E content \in {ContentOf(customer, chervic)} :
            \E r \in {generate_pdf(World(s, session[s], files, dirs, nextUuid[s]),
                                   content, env)} :
               /\ r.w.uuid <= MaxUuid
               /\ session' = [session EXCEPT ![s] = r.w.sess]
               /\ files' = r.w.files
               /\ nextUuid' = [nextUuid EXCEPT ![s] = r.w.uuid]
               /\ last' = [Last("generate_pdf", s, "", NoMsg, EMPTY, r.gp, NoPath,
                                 EMPTY, NoSigs, env.stuck)
                              EXCEPT !.call = [fn |-> "generate_pdf", content |-> content,
                                               error |-> create_document(files,
                                                                         content).error]]
               /\ UNCHANGED <<dirs, retired, inflight>>

\* validate_date(date_str), called on its own
ValidateDate(s) ==
    \E date_str \in
        {EMPTY,
         \* a padded date
         <<"2", "0", "2", "4", "-", "0", "1", "-", "0", "2">>,
         \* 29 February of a leap year
         <<"2", "0", "2", "4", "-", "0", "2", "-", "2", "9">>,
         \* 29 February of a common year
         <<"2", "0", "2", "3", "-", "0", "2", "-", "2", "9">>,
         \* a month past December
         <<"2", "0", "2", "4", "-", "1", "3", "-", "0", "1">>,
         \* month and day without the leading zero
         <<"2", "0", "2", "4", "-", "1", "-", "2">>,
         \* day without the leading zero
         <<"2", "0", "2", "4", "-", "0", "1", "-", "2">>,
         \* day padded with a space
         <<"2", "0", "2", "4", "-", "0", "1", "-", " ", "2">>,
         \* a wrong separator
         <<"2", "0", "2", "4", "/", "0", "1", "/", "0", "2">>,
         \* a two-digit year
         <<"2", "4", "-", "0", "1", "-", "0", "2">>,
         \* year 0
         <<"0", "0", "0", "0", "-", "0", "1", "-", "0", "1">>,
         \* text that is not numeric
         <<"a", "b", "c", "d">>} :
        /\ last' = [Last("validate_date", s, "", NoMsg, EMPTY, NoGp, NoPath, EMPTY,
                          NoSigs, {})
                       EXCEPT !.call = [fn |-> "validate_date", arg |-> date_str,
                                        ret |-> validate_date(date_str)]]
        /\ UNCHANGED <<session, files, dirs, nextUuid, retired, inflight>>

\* allowed_file(filename), called on its own
AllowedFile(s) ==
    \E filename \in {<<"s", ".", "p", "n", "g">>, <<"s", ".", "P", "N", "G">>,
                      <<"s", ".", "J", "p", "g">>, <<"s", ".", "j", "p", "e", "g">>,
                      <<"s", ".", "e", ".", "p", "n", "g">>, <<".", "p", "n", "g">>,
                      <<"s", ".", "g", "i", "f">>, <<"s", ".", "p", "n", "g", ".", "e">>,
                      <<"s", ".", "p", "n">>, <<"p", "n", "g">>, <<"s", ".">>,
                      <<"s", ".", "p", "n", "g", ".">>, <<"s", ".", "p", "n", "g", " ">>} :
        /\ last' = [Last("allowed_file", s, "", NoMsg, EMPTY, NoGp, NoPath, EMPTY,
                          NoSigs, {})
                       EXCEPT !.call = [fn |-> "allowed_file", arg |-> filename,
                                        ret |-> allowed_file(filename)]]
        /\ UNCHANGED <<session, files, dirs, nextUuid, retired, inflight>>

\* fetch_ariba_network_ids(user_id), called on its own in the session of s
FetchAribaNetworkIds(s) ==
    \E upstream \in {[status |-> "transport", domains |-> EMPTY],
                      [status |-> "http", domains |-> EMPTY],
                      [status |-> "ok", domains |-> EMPTY],
                      [status |-> "ok",
                       domains |-> <<[aribaNetworkId |-> <<"N", "1">>, name |-> NameAB],
                                     [name |-> NameAB],
                                     [aribaNetworkId |-> EMPTY]>>]} :
        /\ last' = [Last("fetch_ariba_network_ids", s, "", NoMsg, EMPTY, NoGp, NoPath,
                          EMPTY, NoSigs, {})
                       EXCEPT !.call = [fn |-> "fetch_ariba_network_ids",
                                        upstream |-> upstream]
                                       @@ fetch_ariba_network_ids(session[s], upstream)]
        /\ UNCHANGED <<session, files, dirs, nextUuid, retired, inflight>>

\* The functions that write files, called by one session, and its logout.
NextCalls ==
    \E s \in {"s1"} :
        \/ SaveSignature(s)
        \/ GeneratePdf(s)
        \/ Logout(s)

SpecCalls == Init /\ [][NextCalls]_vars

\* save_edit_history(pdf_filename, username, changes), called on its own,
\* also for an artifact that already has a log; a log holds at most MaxUuid
\* entries
SaveEditHistory(s) ==
    \E username \in {"bdu", "other"}, fault \in HistoryFaults :
        \E w \in {save_edit_history(World(s, session[s], files, dirs, nextUuid[s]),
                                    <<"MSA_", "A", ".", "p", "d", "f">>, username,
                                    Changes(EMPTY), fault)} :
           /\ \A p \in DOMAIN w.files :
                  w.files[p].kind = "history" => Len(w.files[p].entries) <= MaxUuid
           /\ files' = w.files
           /\ last' = [Last("save_edit_history", s, "", NoMsg, EMPTY, NoGp, NoPath,
                             EMPTY, NoSigs, {})
                          EXCEPT !.fault = fault,
                                 !.call = [fn |-> "save_edit_history",
                                           username |-> username]]
           /\ UNCHANGED <<session, dirs, nextUuid, retired, inflight>>

\* The other functions, called on their own by sessions that log in and
\* out.
NextChecks ==
    \E s \in Sessions :
        \/ Login(s)
        \/ SaveEditHistory(s)
        \/ FetchAribaNetworkIds(s)
        \/ ValidateDate(s)
        \/ AllowedFile(s)
        \/ Logout(s)

SpecChecks == Init /\ [][NextChecks]_vars

(***************************************************************************)
(* Properties.  `last` describes the request that led to the state, so a   *)
(* state predicate on it speaks of the state a handler leaves behind.      *)
(***************************************************************************)
\* the last request was a submission in which generate_pdf got as far as
\* running the converter
ConverterRan == last.op = "submit" /\ last.gp.called /\ last.gp.conv # ""

\* the last request was a submission in which generate_pdf raised
GenerationFailed == last.op = "submit" /\ last.gp.called /\ ~last.gp.returned

\* C1, as stated: generate_pdf returns exactly when the converter exited
\* with status zero and the expected file exists at the expected path.
C1_ReturnsIffConverted ==
    ConverterRan =>
        (last.gp.returned <=> (last.gp.conv = "zero" /\ last.gp.pdfExisted))

\* C1, amended: generate_pdf returns exactly when the converter exited with
\* status zero, the expected file exists and reading it back succeeds; it
\* raises in every other case.
C1_ReturnsIffConvertedAndRead ==
    ConverterRan =>
        (last.gp.returned <=>
            (last.gp.conv = "zero" /\ last.gp.pdfExisted /\ ~last.gp.readFault))

\* a submission whose generate_pdf returned
C1_Returned ==
    /\ ConverterRan
    /\ last.gp.returned
    /\ last.outcome = "redirect_view_pdf"
    /\ Exists(files, last.gp.pdf)

\* C2: when generate_pdf fails and no deletion fails, no file created for
\* the submission remains: not the working document, not what the converter
\* wrote for it in the output directory.
C2_NoFileRemainsAfterFailure ==
    (GenerationFailed /\ ~last.gp.unlinkFailed) =>
        \A p \in last.gp.made : ~Exists(files, p)

\* C3: when generate_pdf fails at any step, the session holds no record for
\* the submission's artifact id, neither in pdfs nor in docxs.
C3_NoRecordAfterFailure ==
    GenerationFailed => last.gp.id \notin IdsOf(session[last.sess])

\* C4, as stated: when the converter exits non-zero, generate_pdf raises,
\* the working document is deleted and no entry is added to pdfs or docxs.
C4_NonZeroExitLeavesNothing ==
    (ConverterRan /\ last.gp.conv = "nonzero") =>
        /\ ~last.gp.returned
        /\ last.outcome = "form_error"
        /\ ~Exists(files, last.gp.docx)
        /\ last.gp.id \notin IdsOf(session[last.sess])

\* C4, amended: when the converter exits non-zero, generate_pdf raises, no
\* entry is added to pdfs or docxs, and the working document is deleted
\* unless its removal fails.
C4_NonZeroExitUnlessStuck ==
    (ConverterRan /\ last.gp.conv = "nonzero") =>
        /\ ~last.gp.returned
        /\ last.outcome = "form_error"
        /\ last.gp.docx.dir \notin last.stuck => ~Exists(files, last.gp.docx)
        /\ last.gp.id \notin IdsOf(session[last.sess])

\* a non-zero exit after which the working document is gone
C4_NonZeroExitCleaned ==
    /\ ConverterRan
    /\ last.gp.conv = "nonzero"
    /\ last.gp.docx \in last.gp.made
    /\ ~Exists(files, last.gp.docx)

\* C5: a request of one session leaves every file another session owns on
\* disk, and every lookup the other session makes of an id it registered
\* gives what it gave before.
C5_SessionsDoNotInterfere ==
    [][\A b \in Sessions :
          last'.sess # b =>
              /\ \A p \in LogoutTracked(session[b]) :
                    Exists(files, p) => Exists(files', p)
              /\ \A kind \in {"pdfs", "docxs"} :
                    \A id \in IdsOf(session[b]) :
                        Lookup(session'[b], files', kind, id)
                            = Lookup(session[b], files, kind, id)]_vars

\* C6: a request to any endpoint but login by a session without a user
\* serves no file, creates and deletes no file or directory, and changes no
\* session state.
C6_AuthenticationRequired ==
    [][(last'.op # "login" /\ ~last'.authed) =>
          /\ last'.served = NoPath
          /\ files' = files
          /\ dirs' = dirs
          /\ session' = session]_vars

\* a storage directory is empty or removed
EmptyOrRemoved(d) == d \notin dirs \/ ~\E p \in DOMAIN files : p.dir = d

\* a request for an artifact id of a session that has logged out is not
\* answered with a file
PriorIdsNotFound ==
    (last.op \in ServeOps /\ last.gp.id \in retired) =>
        /\ last.served = NoPath
        /\ last.outcome \in {"redirect_login", "redirect_index"}

\* C7, as stated: after logout the four storage directories are empty or
\* removed, the session is empty, and later requests for the prior ids are
\* answered not-found.
C7_LogoutLeavesNothing ==
    /\ last.op = "logout" =>
          /\ \A d \in StorageDirs : EmptyOrRemoved(d)
          /\ session[last.sess] = EMPTY
    /\ PriorIdsNotFound

\* C7, amended: after logout the session is empty, every storage directory
\* whose removal did not fail is removed with all it held, and later
\* requests for the prior ids are answered not-found.
C7_LogoutLeavesNothingUnlessStuck ==
    /\ last.op = "logout" =>
          /\ \A d \in StorageDirs \ last.stuck : d \notin dirs /\ EmptyOrRemoved(d)
          /\ session[last.sess] = EMPTY
    /\ PriorIdsNotFound

\* a session that had generated an agreement logged out, the directories
\* are gone, and after a new login a download of the prior id is not found
C7_LookupAfterLogout ==
    /\ last.op = "download_pdf"
    /\ last.authed
    /\ last.gp.id \in retired
    /\ last.outcome = "redirect_index"
    /\ dirs = {}

\* the required fields a posted form lacks or leaves all-whitespace
BlankIn(form) ==
    {f \in Range(required_fields) :
        f \notin DOMAIN form \/ \A i \in 1..Len(form[f]) : form[f][i] = SPACE}

\* C8: a submission with a required field missing or all-whitespace ends
\* with an error naming such a field (the field, when it is the only one),
\* without a call of save_signature, create_document or generate_pdf.
C8_MissingRequiredField ==
    (last.op = "submit" /\ last.authed /\ BlankIn(last.form) # {}) =>
        /\ last.outcome = "form_error"
        /\ last.msg.kind = "required"
        /\ last.msg.field \in BlankIn(last.form)
        /\ last.calls = EMPTY
        /\ ~last.gp.called

\* a submission whose last required field is all-whitespace was rejected
C8_WhitespaceFieldRejected ==
    /\ last.op = "submit"
    /\ last.authed
    /\ BlankIn(last.form) = {"contact_person_sign_date"}
    /\ "contact_person_sign_date" \in DOMAIN last.form
    /\ last.form["contact_person_sign_date"] # EMPTY
    /\ last.msg = Msg("required", "contact_person_sign_date")

\* the upload the handler turned down had a file name
UploadTurnedDown ==
    \/ last.msg.field = "chervic" /\ last.sigs.chervic.file.filename # EMPTY
    \/ last.msg.field = "customer" /\ last.sigs.customer.file.filename # EMPTY

\* the last request was a submission rejected for a missing field, a date
\* in a wrong format or an upload with a disallowed extension
RejectedByValidation ==
    /\ last.op = "submit"
    /\ last.authed
    /\ \/ last.msg.kind \in {"required", "invalid_date"}
       \/ last.msg.kind = "signature_required" /\ UploadTurnedDown

\* C9: a submission rejected by validation leaves the session's form
\* values, signature map, artifact maps and network id, and the files on
\* disk, as they were.
C9_RejectedSubmissionHasNoEffect ==
    [][RejectedByValidation' =>
          /\ files' = files
          /\ \A k \in {"form_data", "signatures", "pdfs", "docxs", "aribaNetworkId"} :
                Get(session'[last'.sess], k, EMPTY) = Get(session[last'.sess], k, EMPTY)]_vars

\* a call of save_signature returned None
SignatureFailed(calls) ==
    \E i \in 1..Len(calls) : calls[i] = Call("save_signature", FALSE)

\* C10: when save_signature fails for either party, the handler stops
\* before create_document and generate_pdf, and the submission creates no
\* working document, no fixed-layout file, no artifact record and no
\* edit-history entry.
C10_SignatureFailureStopsSubmission ==
    [][(last'.op = "submit" /\ SignatureFailed(last'.calls)) =>
          /\ last'.outcome = "form_error"
          /\ \A i \in 1..Len(last'.calls) : last'.calls[i].fn = "save_signature"
          /\ ~last'.gp.called
          /\ \A p \in DOMAIN files' \ DOMAIN files : p.dir = SIGNATURE_DIR
          /\ \A p \in DOMAIN files :
                p.dir = EDIT_HISTORY_DIR => p \in DOMAIN files' /\ files'[p] = files[p]
          /\ \A k \in {"pdfs", "docxs"} :
                Get(session'[last'.sess], k, EMPTY) = Get(session[last'.sess], k, EMPTY)]_vars

\* the customer's canvas signature failed after the provider's was stored
C10_CustomerSignatureFailed ==
    /\ last.op = "submit"
    /\ SignatureFailed(last.calls)
    /\ last.calls[1] = Call("save_signature", TRUE)
    /\ last.msg = Msg("canvas_failed", "customer")

\* the last step was a call of save_signature with an inline payload
InlineCall == last.call.fn = "save_signature" /\ ~last.call.is_file

\* everything after the first comma of a data URI
AfterFirstComma(data) == SubSeq(data, FirstIndexOf(data, COMMA) + 1, Len(data))

\* a payload of whole base64 groups and nothing else
ValidBase64(payload) ==
    \A i \in 1..Len(payload) : payload[i] \in {"QUJD", "REVG"}

\* an inline payload that violates one of the three conditions
InvalidInline(data) ==
    \/ ~StartsWithDataImage(data)
    \/ ~HasComma(data)
    \/ ~ValidBase64(AfterFirstComma(data))

\* the signature map of a session
SignaturesOf(sess) == Get(sess, "signatures", EMPTY)

\* C11: for an inline payload without the image data-URI prefix, without a
\* comma, or whose part after the comma is not valid base64, save_signature
\* returns None, writes no file and leaves the signature map as it was.
C11_InvalidInlineRejected ==
    [][(InlineCall' /\ InvalidInline(last'.call.data)) =>
          /\ last'.call.ret = None
          /\ files' = files
          /\ SignaturesOf(session'[last'.sess]) = SignaturesOf(session[last'.sess])]_vars

\* C12: the bytes stored for an accepted data URI are the base64 decoding of
\* everything after its first comma, further commas included.
C12_StoredBytesAreDecodedPayload ==
    (InlineCall /\ last.call.ret # None) =>
        /\ ~B64Raises(AfterFirstComma(last.call.data))
        /\ files[SignaturesOf(session[last.sess])[last.call.ret]].bytes
              = b64decode(AfterFirstComma(last.call.data))

\* C13: a successful save_signature adds exactly one entry to the signature
\* map, under a fresh filename that begins with the role prefix and maps to
\* a file on disk, keeps every earlier entry, and marks the session modified
\* once.
C13_OneNewSignatureEntry ==
    [][(last'.call.fn = "save_signature" /\ last'.call.ret # None) =>
          LET old == SignaturesOf(session[last'.sess])
              new == SignaturesOf(session'[last'.sess])
              filename == last'.call.ret
          IN /\ filename \notin DOMAIN old
             /\ DOMAIN new = DOMAIN old \cup {filename}
             /\ \A k \in DOMAIN old : new[k] = old[k]
             /\ Head(filename) = last'.call.prefix
             /\ new[filename].dir = SIGNATURE_DIR
             /\ Exists(files', new[filename])
             /\ last'.call.modified = 1]_vars

\* a third signature was stored next to two earlier ones
C13_ThirdSignatureStored ==
    /\ last.call.fn = "save_signature"
    /\ last.call.ret # None
    /\ Cardinality(DOMAIN SignaturesOf(session[last.sess])) = 3
    /\ \A k \in DOMAIN SignaturesOf(session[last.sess]) :
          Exists(files, SignaturesOf(session[last.sess])[k])

\* the last request was a submission that ended with the success outcome
Succeeded == last.op = "submit" /\ last.outcome = "redirect_view_pdf"

\* the session of the last request gained the artifact id of the request,
\* and no other, in both maps
GainedOneArtifact ==
    LET old == session[last'.sess]
        new == session'[last'.sess]
        id == last'.gp.id
    IN /\ id \notin IdsOf(old)
       /\ IdsOf(new) = IdsOf(old) \cup {id}
       /\ DOMAIN Get(new, "pdfs", EMPTY) = DOMAIN Get(old, "pdfs", EMPTY) \cup {id}
       /\ DOMAIN Get(new, "docxs", EMPTY) = DOMAIN Get(old, "docxs", EMPTY) \cup {id}
       /\ new["pdfs"][id] = last'.gp.pdf
       /\ new["docxs"][id] = last'.gp.docx

\* the history log of the last request's artifact holds one entry, which
\* records both signatures
OneHistoryEntry ==
    LET history_file == HistoryFile(last.gp.id)
    IN /\ Exists(files, history_file)
       /\ Len(files[history_file].entries) = 1
       /\ files[history_file].entries[1].changes.signatures_added
             = [chervic |-> TRUE, customer |-> TRUE]

\* C14, as stated: a successful submission adds exactly one artifact id to
\* the session, with a working-document path and a fixed-layout path, and
\* the history log of the artifact holds exactly one entry, which records
\* both signatures.
C14_OneArtifactOneHistoryEntry ==
    [][Succeeded' => (GainedOneArtifact /\ OneHistoryEntry')]_vars

\* C14, amended: a successful submission adds exactly one artifact id to
\* the session, with both paths; the history log of the artifact holds
\* exactly one entry, which records both signatures, unless writing the log
\* failed.
C14_OneArtifactAndHistoryIfWritten ==
    [][Succeeded' =>
          /\ GainedOneArtifact
          /\ last'.fault \notin {"open", "dump"} => OneHistoryEntry']_vars

\* a second successful submission of a session, with its own history entry
C14_SecondArtifact ==
    /\ Succeeded
    /\ Cardinality(IdsOf(session[last.sess])) = 2
    /\ OneHistoryEntry

\* C15: when generate_pdf succeeded, the submission ends with the redirect
\* to the artifact view and the artifact stays registered, whether or not
\* the history log could be read and written.
C15_HistoryNeverBlocks ==
    (last.op = "submit" /\ last.gp.returned) =>
        /\ last.outcome = "redirect_view_pdf"
        /\ last.gp.id \in DOMAIN Get(session[last.sess], "pdfs", EMPTY)
        /\ last.gp.id \in DOMAIN Get(session[last.sess], "docxs", EMPTY)

\* a submission succeeded although the dump of its history log failed
C15_SucceededWithoutHistory ==
    /\ Succeeded
    /\ last.fault = "dump"
    /\ Exists(files, HistoryFile(last.gp.id))
    /\ files[HistoryFile(last.gp.id)].entries = EMPTY

\* the session map an endpoint looks the id up in
MapOf(op) == IF op = "download_docx" THEN "docxs" ELSE "pdfs"

\* the id of the last request is registered in the map of its endpoint
Registered == last.gp.id \in DOMAIN Get(session[last.sess], MapOf(last.op), EMPTY)

\* ... and the registered path is on disk
OnDisk == Exists(files, session[last.sess][MapOf(last.op)][last.gp.id])

\* C16: in the four file endpoints an id that is not registered and an id
\* whose registered path is gone both give the not-found message and the
\* redirect to the form, and a file is served only for a registered id
\* whose path exists.
C16_MissingIdAndMissingFileAlike ==
    (last.op \in ServeOps /\ last.authed) =>
        /\ (~Registered \/ ~OnDisk) =>
              /\ last.outcome = "redirect_index"
              /\ last.msg = Msg("not_found", "")
              /\ last.served = NoPath
        /\ last.outcome \in {"send_file", "render_view_pdf"} => (Registered /\ OnDisk)
        /\ last.served # NoPath =>
              /\ Registered /\ OnDisk
              /\ last.served = session[last.sess][MapOf(last.op)][last.gp.id]

\* a download of a registered working document whose file is gone
C16_RegisteredButGone ==
    /\ last.op = "download_docx"
    /\ last.authed
    /\ Registered
    /\ ~OnDisk
    /\ last.outcome = "redirect_index"

\* C17: every submission that has reached the converter is eventually
\* answered, whether or not the converter process exits.
C17_SubmissionCompletes == AnyPending ~> ~AnyPending

\* the user and the cookies of a session, None where it has none
UserOf(sess) == Get(sess, "user", None)

CookiesOf(sess) == Get(sess, "cookies", None)

\* C18: a login whose credentials are accepted but whose role is not the
\* allowed one raises AuthenticationError and sets neither the user nor the
\* cookies of the session; a user is set only when the credentials, the
\* role and a user id were all there.
C18_RoleCheckedBeforeUserIsSet ==
    [][last'.call.fn = "login_user" =>
          LET api == last'.call.api
              old == session[last'.sess]
              new == session'[last'.sess]
          IN /\ (api.credentials /\ api.role # "BUSINESS_DEVELOPMENT_USER") =>
                   /\ last'.call.raised
                   /\ last'.outcome = "login_form"
                   /\ UserOf(new) = UserOf(old)
                   /\ CookiesOf(new) = CookiesOf(old)
             /\ UserOf(new) # UserOf(old) =>
                   /\ api.credentials
                   /\ api.role = "BUSINESS_DEVELOPMENT_USER"
                   /\ api.id # ""
                   /\ UserOf(new).role = "BUSINESS_DEVELOPMENT_USER"]_vars

\* a login with accepted credentials and another role was turned down
C18_WrongRoleRejected ==
    /\ last.call.fn = "login_user"
    /\ last.call.api.credentials
    /\ last.call.api.role = "ADMIN"
    /\ last.call.raised
    /\ "user" \notin DOMAIN session[last.sess]

\* the content mapping holds a signature key whose file is not on the disk fs
MissingSignatureFile(fs, content) ==
    \E k \in {"customer_signature", "chervic_signature"} :
        k \in DOMAIN content /\ content[k] \notin DOMAIN fs

\* C19: when the content mapping holds the customer or the provider
\* signature key and the file is not on disk, create_document fails with
\* the file-not-found error and returns no buffer, and generate_pdf writes
\* no working file and does not run the converter.
C19_MissingSignatureFileIsFatal ==
    [][(last'.call.fn = "generate_pdf"
            /\ MissingSignatureFile(files, last'.call.content)) =>
          /\ last'.call.error = "FileNotFoundError"
          /\ create_document(files, last'.call.content).buffer = NoBuffer
          /\ ~last'.gp.returned
          /\ last'.gp.conv = ""
          /\ last'.gp.made = {}
          /\ files' = files
          /\ session' = session]_vars

\* generate_pdf was called with a stored customer signature and a provider
\* signature whose file is gone
C19_ProviderSignatureGone ==
    /\ last.call.fn = "generate_pdf"
    /\ "customer_signature" \in DOMAIN last.call.content
    /\ Exists(files, last.call.content["customer_signature"])
    /\ "chervic_signature" \in DOMAIN last.call.content
    /\ ~Exists(files, last.call.content["chervic_signature"])
    /\ last.call.error = "FileNotFoundError"
    /\ last.gp.stage = "document"

\* a valid date written as YYYY-MM-DD: ten characters, four digits, a dash,
\* two digits, a dash, two digits, naming a day of the calendar
IsYYYYMMDD(str) ==
    /\ Len(str) = 10
    /\ str[5] = "-" /\ str[8] = "-"
    /\ AllDigits(SubSeq(str, 1, 4))
    /\ AllDigits(SubSeq(str, 6, 7))
    /\ AllDigits(SubSeq(str, 9, 10))
    /\ NumVal(SubSeq(str, 1, 4)) >= 1
    /\ NumVal(SubSeq(str, 6, 7)) \in 1..12
    /\ NumVal(SubSeq(str, 9, 10)) \in
           1..DaysIn(NumVal(SubSeq(str, 1, 4)), NumVal(SubSeq(str, 6, 7)))

\* C20: validate_date returns true for every valid date string of the form
\* YYYY-MM-DD and false for every other string (a wrong separator, a
\* two-digit year, a month or day without its leading zero, text that is
\* not numeric, the empty string).
C20_TrueExactlyForYYYYMMDD ==
    last.call.fn = "validate_date" =>
        last.call.ret = IsYYYYMMDD(last.call.arg)

\* the filename has a dot at position i and none after it
IsLastDot(filename, i) ==
    /\ filename[i] = "."
    /\ \A j \in (i + 1)..Len(filename) : filename[j] # "."

\* the filename holds a dot and what follows its last dot is png, jpg or
\* jpeg in some letter case
HasImageSuffix(filename) ==
    \E i \in 1..Len(filename) :
        /\ IsLastDot(filename, i)
        /\ \E ext \in {<<"p", "n", "g">>, <<"j", "p", "g">>, <<"j", "p", "e", "g">>} :
              /\ Len(filename) - i = Len(ext)
              /\ \A k \in 1..Len(ext) : LowerChar(filename[i + k]) = ext[k]

\* C21: allowed_file returns true exactly for the filenames that contain a
\* dot and whose suffix after the last dot, lowercased, is png, jpg or jpeg;
\* false without a dot, with an empty suffix, with any other suffix.
C21_AllowedExactlyForImageSuffix ==
    last.call.fn = "allowed_file" =>
        last.call.ret = HasImageSuffix(last.call.arg)

\* allowed_file accepted a suffix written in capitals
C21_CapitalSuffixAllowed ==
    /\ last.call.fn = "allowed_file"
    /\ last.call.arg = <<"s", ".", "P", "N", "G">>
    /\ last.call.ret

OwnedFiles(sess) ==
    PathsOf(sess, "pdfs") \cup PathsOf(sess, "docxs") \cup PathsOf(sess, "signatures")
        \cup {HistoryFile(id) : id \in DOMAIN Get(sess, "pdfs", EMPTY)}

\* C23: logout first deletes, one by one, the file of every record of every
\* kind the session owns (fixed-layout files, working documents, signature
\* images, history logs of its artifacts), going on past a deletion that
\* fails; only then it removes the storage directories; only then it clears
\* the session.
C23_LogoutOrder ==
    [][/\ (last'.op = "logout" /\ last'.outcome = "unlinked") =>
            /\ \A p \in OwnedFiles(session[last'.sess]) :
                  p.dir \notin last'.stuck => ~Exists(files', p)
            /\ dirs' = dirs
            /\ session' = session
       /\ (last'.op = "logout" /\ last'.outcome = "swept") =>
            /\ last.op = "logout" /\ last.outcome = "unlinked"
            /\ session' = session
       /\ (last'.op = "logout" /\ last'.outcome = "redirect_login") =>
            /\ last.op = "logout" /\ last.outcome = "swept"
            /\ session'[last'.sess] = EMPTY]_vars

\* the sequence old is the beginning of the sequence new
IsPrefix(old, new) ==
    Len(old) <= Len(new) /\ \A i \in 1..Len(old) : new[i] = old[i]

RegistryKinds == {"signatures", "pdfs", "docxs"}

\* what the session gained in a map while the submission in flight was
\* being handled: the registrations of the submissions that overlapped it
GainedMeanwhile(kind) ==
    DOMAIN Get(session[inflight.sid], kind, EMPTY)
        \ DOMAIN Get(inflight.sess, kind, EMPTY)

\* C25: two overlapping submissions of one session are not serialized; each
\* reads, changes and writes back the signature and artifact maps on its
\* own.  When the one that began first answers last, every entry the other
\* registered meanwhile is missing from the session, and its file stays on
\* disk.
C25_LaterResponseDropsEarlierEntries ==
    [][(inflight.busy /\ ~inflight'.busy) =>
          \A kind \in RegistryKinds :
             \A k \in GainedMeanwhile(kind) :
                /\ k \notin DOMAIN Get(session'[inflight.sid], kind, EMPTY)
                /\ Exists(files, session[inflight.sid][kind][k])
                      => Exists(files', session[inflight.sid][kind][k])]_vars

\* both submissions have answered with success, and a signature and a
\* fixed-layout file of the session are on disk but in none of its maps
C25_RegisteredEntryLost ==
    /\ ~inflight.busy
    /\ Succeeded
    /\ \E p \in DOMAIN files :
          /\ p.dir = SIGNATURE_DIR
          /\ p \notin PathsOf(session["s1"], "signatures")
    /\ \E p \in DOMAIN files :
          /\ p.dir = OUTPUT_DIR
          /\ p \notin PathsOf(session["s1"], "pdfs")
    /\ DOMAIN Get(session["s1"], "pdfs", EMPTY) # {}

\* the handler of the last request called fn
Called(fn) == \E i \in 1..Len(last.calls) : last.calls[i].fn = fn

\* C26: whenever save_signature, generate_pdf or save_edit_history runs, the
\* storage directory it writes into exists; so after a logout a later login
\* and valid submission can still store both signatures and produce an
\* artifact.
C26_StorageDirsExistWhenWritten ==
    last.op = "submit" =>
        /\ Called("save_signature") => SIGNATURE_DIR \in dirs
        /\ Called("generate_pdf") => {DOCX_DIR, OUTPUT_DIR} \subseteq dirs
        /\ Called("save_edit_history") => EDIT_HISTORY_DIR \in dirs

\* C27: with one request at a time, the pdfs map and the docxs map of a
\* session hold the same artifact ids in every reachable state, so
\* download_docx finds a registered working document for an id exactly when
\* download_pdf finds a registered fixed-layout path for it.
C27_SameIdsInBothMaps ==
    \A s \in Sessions :
        /\ DOMAIN Get(session[s], "pdfs", EMPTY) = DOMAIN Get(session[s], "docxs", EMPTY)
        /\ \A id \in KnownIds :
              (Get(Get(session[s], "docxs", EMPTY), id, NoPath) # NoPath)
                  <=> (Get(Get(session[s], "pdfs", EMPTY), id, NoPath) # NoPath)

\* download_docx served the working document of a registered artifact
C27_WorkingDocumentServed ==
    /\ last.op = "download_docx"
    /\ last.served # NoPath
    /\ last.gp.id \in DOMAIN Get(session[last.sess], "pdfs", EMPTY)

\* the last request asked a file endpoint for an id that another session
\* has registered and whose file is on disk
AskedForForeignFile ==
    /\ last.op \in ServeOps
    /\ last.authed
    /\ last.gp.id \notin IdsOf(session[last.sess])
    /\ \E s \in Sessions \ {last.sess} :
          /\ last.gp.id \in DOMAIN Get(session[s], MapOf(last.op), EMPTY)
          /\ Exists(files, session[s][MapOf(last.op)][last.gp.id])

\* C28: a download, view or serve request returns only a file whose id the
\* requesting session registered; for the artifact name of another session
\* the answer is not-found, also while that file is on disk.
C28_OnlyOwnArtifactsServed ==
    last.op \in ServeOps =>
        /\ last.outcome \in {"send_file", "render_view_pdf"} =>
              /\ last.gp.id \in DOMAIN Get(session[last.sess], MapOf(last.op), EMPTY)
              /\ last.served \in {NoPath, session[last.sess][MapOf(last.op)][last.gp.id]}
        /\ AskedForForeignFile =>
              /\ last.outcome = "redirect_index"
              /\ last.msg.kind = "not_found"
              /\ last.served = NoPath

\* a logged-in session asked serve_pdf for the artifact of another session
\* while the file was on disk
C28_ForeignFileRefused ==
    /\ AskedForForeignFile
    /\ last.op = "serve_pdf"
    /\ last.msg.kind = "not_found"

\* the name of a working file with its final ".docx" replaced by ".pdf":
\* the name under which the converter writes its output
FinalExtensionReplaced(filename) ==
    SubSeq(filename, 1, Len(filename) - 5) \o <<".", "p", "d", "f">>

\* C29: for every company name, also one that contains ".docx", the
\* fixed-layout path generate_pdf checks, registers and cleans up is the
\* path at which the converter writes its output for the working file.
C29_ExpectedPathIsConverterOutput ==
    (last.op = "submit" /\ last.gp.called /\ last.gp.docx # NoPath) =>
        /\ last.gp.pdf = Path(OUTPUT_DIR, FinalExtensionReplaced(last.gp.docx.name))
        /\ last.gp.id = FinalExtensionReplaced(last.gp.docx.name)

\* the calls of a whole submission, in their order; create_document is
\* called by generate_pdf
StepOrder ==
    <<"save_signature", "save_signature", "generate_pdf", "create_document",
      "save_edit_history">>

\* the call of fn in a sequence of calls returned a result
CallOk(calls, fn) == \E i \in 1..Len(calls) : calls[i] = Call(fn, TRUE)

\* the history logs on a disk
HistoryLogs(fs) == [p \in {q \in DOMAIN fs : q.dir = EDIT_HISTORY_DIR} |-> fs[p]]

\* the signatures of a party that the session of the request gained
NewSignatures(old, new, prefix) ==
    {k \in DOMAIN SignaturesOf(new) \ DOMAIN SignaturesOf(old) : k[1] = prefix}

\* C30: in a submission the steps come in a fixed order, each only after
\* the one before it succeeded: field validation, provider signature,
\* customer signature, document assembly, conversion, registration of the
\* artifact, history entry.  A history entry is written only for an artifact
\* id the session has registered, and a failed submission writes none.
C30_StepsInOrder ==
    [][last'.op = "submit" =>
          LET calls == last'.calls
              old == session[last'.sess]
              new == session'[last'.sess]
          IN /\ Len(calls) <= Len(StepOrder)
             /\ \A i \in 1..Len(calls) : calls[i].fn = StepOrder[i]
             /\ last'.msg.kind \in {"required", "invalid_date"} => calls = EMPTY
             /\ Len(calls) >= 2 => calls[1].ok
             /\ NewSignatures(old, new, "customer") # {}
                   => NewSignatures(old, new, "chervic") # {}
             /\ Len(calls) >= 3 => calls[1].ok /\ calls[2].ok
             /\ last'.gp.conv # "" => CallOk(calls, "create_document")
             /\ last'.gp.id \in IdsOf(new) \ IdsOf(old)
                   => last'.gp.conv = "zero" /\ last'.gp.pdfExisted
             /\ Len(calls) = 5
                   => /\ CallOk(calls, "generate_pdf")
                      /\ last'.gp.id \in DOMAIN Get(new, "pdfs", EMPTY)
             /\ HistoryLogs(files') # HistoryLogs(files)
                   => /\ last'.outcome = "redirect_view_pdf"
                      /\ last'.gp.id \in DOMAIN Get(new, "pdfs", EMPTY)
                      /\ \A p \in DOMAIN HistoryLogs(files') :
                            p # HistoryFile(last'.gp.id) =>
                               /\ Exists(files, p)
                               /\ files'[p] = files[p]]_vars

\* a submission went through all the steps and its history entry is in the
\* log of the artifact it registered
C30_AllStepsDone ==
    /\ Succeeded
    /\ Len(last.calls) = 5
    /\ \A i \in 1..5 : last.calls[i].ok
    /\ Exists(files, HistoryFile(last.gp.id))
    /\ Len(files[HistoryFile(last.gp.id)].entries) = 1
    /\ last.gp.id \in DOMAIN Get(session[last.sess], "pdfs", EMPTY)

====
